---------------------------- MODULE Spec2Model ----------------------------
(***************************************************************************)
(* Model of the shift scheduling engine of src/solve_new.py: the HTTP      *)
(* handler shift_optimazation and solve_schedule (availability expansion,  *)
(* sparse variable creation, hard constraints, solver call, result         *)
(* extraction) with its retry on INFEASIBLE.  Indices are 0-based as in    *)
(* the source.                                                             *)
(***************************************************************************)
EXTENDS Integers, Sequences, FiniteSets, TLC

(***************************************************************************)
(* Program constants.                                                      *)
(***************************************************************************)
HOURS_IN_DAY == 24
MAX_RETRY_ATTEMPTS == 3
MAX_WEEKLY_HOURS == 40
MIN_REST_HOURS == 8
\* 0.2 as an exact fraction <<numerator, denominator>>
PENALTY_REDUCTION_FACTOR == <<1, 5>>

(***************************************************************************)
(* Bounds of the model.                                                    *)
(***************************************************************************)
\* longest planning horizon (settings['num_days_in_planning_period'])
MaxDays == 2
\* most availability slots of the first employee
MaxSlots == 2

None == "None"
H_indices == 0 .. (HOURS_IN_DAY - 1)

(***************************************************************************)
(* Inputs.  Week days are indices into days_of_week_order (0 = Mon); a     *)
(* date is a day count whose value modulo 7 is date.weekday().  A time     *)
(* string "HH:MM" is the pair <<HH, MM>>.                                  *)
(***************************************************************************)
Mon == 0
Tue == 1

Slot(dow, sh, sm, eh, em, night) ==
    [day_of_week |-> dow, start_time |-> <<sh, sm>>, end_time |-> <<eh, em>>,
     is_night_shift |-> night]

\* the availability slots the inputs are drawn from
SlotCatalog ==
    { Slot(Mon, 14, 0, 22, 0, FALSE),    \* late shift
      Slot(Tue, 5, 30, 12, 0, FALSE),    \* early shift, 7 h after 22:00
      Slot(Mon, 22, 0, 6, 0, TRUE),      \* overnight slot
      Slot(Mon, 0, 0, 24, 0, FALSE),     \* whole day, overlaps the two above
      Slot(Tue, 0, 0, 24, 0, FALSE) }    \* whole day

\* a total order on the catalog, to list each choice of slots once
SlotKey(s) ==
    s.day_of_week * 100000 + s.start_time[1] * 1000 + s.end_time[1] * 10
      + (IF s.is_night_shift THEN 1 ELSE 0)

RECURSIVE SortedSlots(_)
SortedSlots(S) ==
    IF S = {} THEN << >>
    ELSE LET m == CHOOSE s \in S : \A t \in S : SlotKey(s) <= SlotKey(t)
         IN  <<m>> \o SortedSlots(S \ {m})

\* availability lists of the first employee: up to MaxSlots catalog slots
AvailabilityChoices ==
    { SortedSlots(S) : S \in { T \in SUBSET SlotCatalog : Cardinality(T) <= MaxSlots } }

\* slots that cannot be read: a start_time that is no number (the empty
\* string), a slot without end_time, a slot without day_of_week
MalformedSlots ==
    { [day_of_week |-> Mon, start_time |-> << >>, end_time |-> <<12, 0>>,
       is_night_shift |-> FALSE],
      [day_of_week |-> Mon, start_time |-> <<8, 0>>, is_night_shift |-> TRUE],
      [start_time |-> <<8, 0>>, end_time |-> <<12, 0>>, is_night_shift |-> FALSE] }

\* availability lists of the first employee with a malformed slot first
MalformedAvailabilityChoices ==
    { <<bad>> \o a1 : bad \in MalformedSlots,
                      a1 \in { a \in AvailabilityChoices : Len(a) < MaxSlots } }

\* preferred_facilities lists; "F9" names no facility
PreferenceChoices == { << >>, <<"F1">>, <<"F9">> }

facilities_catalog ==
    << [id |-> "F1", cleaning_capacity_tasks_per_hour_per_employee |-> 4],
       [id |-> "F2", cleaning_capacity_tasks_per_hour_per_employee |-> 0,
        penalty_overrides |-> [staff_shortage_multiplier |-> <<1, 2>>]] >>

\* cleaning_tasks_input: facility id -> day-of-week -> date -> tasks, and the
\* default_tasks_for_day_of_week fallback; absent keys are absent from the sets
NoCleaning == [specific |-> {}, default |-> {}]

CleaningChoices ==
    { NoCleaning,
      [specific |-> {<<"F1", Mon, 0, 40>>}, default |-> {}],
      [specific |-> {<<"F1", Mon, 0, 50>>}, default |-> {<<"F1", Mon, 80>>, <<"F1", Tue, 80>>}],
      [specific |-> {<<"F1", Tue, 0, 80>>}, default |-> {<<"F2", Tue, 3>>}] }

(***************************************************************************)
(* The inputs of one run: schedule_input (settings, facilities,            *)
(* employees) and cleaning_tasks_input.                                    *)
(***************************************************************************)
Employee(id, prefs, avail) ==
    [id |-> id, preferred_facilities |-> prefs, availability |-> avail,
     contract_max_days_per_week |-> 5, contract_max_hours_per_day |-> 8]

Settings(n, consecutive_days_penalty) ==
    [ planning_start_date |-> 0,
      num_days_in_planning_period |-> n,
      cleaning_shift_start_hour |-> 10,
      cleaning_shift_end_hour |-> 15,
      max_consecutive_work_days |-> 1,
      consecutive_days_penalty |-> consecutive_days_penalty,
      weekly_days_penalty |-> 40000,
      daily_hours_penalty |-> 30000,
      staff_shortage_penalty |-> 100000,
      base_score_per_hour |-> 1,
      night_hour_multiplier |-> <<3, 2>>,
      weekend_day_multiplier |-> <<13, 10>>,
      global_difficulty_cost_multiplier |-> <<1, 10>>,
      NIGHT_HOURS_RANGE_FOR_DIFFICULTY |-> <<22, 5>> ]

Payload(n, p, a1, c, consecutive_days_penalty) ==
    [ schedule_input |->
        [ settings |-> Settings(n, consecutive_days_penalty),
          facilities |-> facilities_catalog,
          employees |-> << Employee("E1", p, a1),
                           Employee("E2", << >>, <<Slot(Mon, 10, 0, 15, 0, FALSE)>>) >> ],
      cleaning_tasks_input |-> c ]

\* consecutive_days_penalty: the generator's value, and one that outweighs
\* the shortage of a night
PenaltyChoices == { 50000, 900 * 1000 * 1000 }

\* the planning periods of the runs: one day, and the longest
PlanningDays == { 1, MaxDays }

\* the payloads of the runs: every availability list of the first employee,
\* with the preferences varied, with the cleaning tasks varied, and with the
\* penalty varied; and the lists with a malformed slot
Inputs ==
    { Payload(n, p, a1, NoCleaning, 50000) :
        n \in PlanningDays, p \in PreferenceChoices, a1 \in AvailabilityChoices }
    \cup
    { Payload(n, << >>, a1, c, 50000) :
        n \in PlanningDays, a1 \in AvailabilityChoices, c \in CleaningChoices }
    \cup
    { Payload(n, << >>, a1, NoCleaning, cdp) :
        n \in PlanningDays, a1 \in AvailabilityChoices, cdp \in PenaltyChoices }
    \cup
    { Payload(n, << >>, a1, NoCleaning, 50000) :
        n \in PlanningDays, a1 \in MalformedAvailabilityChoices }

(***************************************************************************)
(* The HTTP request: its JSON body and its query parameters.  The string   *)
(* of a query parameter is the sequence of its characters.                 *)
(***************************************************************************)
\* a JSON object without keys; request.get_json(silent=True) of a body that
\* is not JSON is None, which the handler tells from it nowhere
EmptyObject == << >>

\* the dict without one of its keys
Without(dict, key) == [ k \in DOMAIN dict \ {key} |-> dict[k] ]

\* a well-formed body
GoodPayload == Payload(1, << >>, << >>, NoCleaning, 50000)

\* bodies of every shape the handler tells apart
BodyChoices ==
    { EmptyObject,
      Without(GoodPayload, "schedule_input"),
      Without(GoodPayload, "cleaning_tasks_input"),
      [GoodPayload EXCEPT !.cleaning_tasks_input = EmptyObject],
      [GoodPayload EXCEPT !.schedule_input = Without(@, "settings")],
      [GoodPayload EXCEPT !.schedule_input = Without(@, "facilities")],
      [GoodPayload EXCEPT !.schedule_input = Without(@, "employees")],
      GoodPayload,
      [GoodPayload EXCEPT !.schedule_input.settings = @ @@ [time_limit_sec |-> 30]] }

\* request.args: without parameters, and with time_limit_sec = "120", "0",
\* "-5", "abc"
ArgsChoices ==
    { EmptyObject,
      [time_limit_sec |-> <<"1", "2", "0">>],
      [time_limit_sec |-> <<"0">>],
      [time_limit_sec |-> <<"-", "5">>],
      [time_limit_sec |-> <<"a", "b", "c">>] }

\* the requests of the runs: every payload without query parameters, and
\* every shape of body with every choice of parameters
Requests ==
    { <<b, EmptyObject>> : b \in Inputs } \cup (BodyChoices \X ArgsChoices)

VARIABLES
    inp,        \* the parsed JSON body of the request: the input payload of the run
    args,       \* the query parameters of the request
    response,   \* the HTTP response of the handler, or NoResponse
    pc,         \* position of the run: "request", "call", "built", "solved",
                \* "done", "raised", "responded"
    frame,      \* the arguments of the current call of solve_schedule
    depth,      \* number of calls of solve_schedule made so far
    history,    \* applied_constraints_history of the caller's result object
    model,      \* the CP model of the current attempt (variables and data)
    cur_settings, \* current_constraints_settings of the current attempt
    statuses,   \* solver status of every attempt solved so far
    sol,        \* solver valuation of the current attempt
    result,     \* the record solve_schedule returned, or None
    exc         \* the exception that escaped solve_schedule, or None

vars == <<inp, args, response, pc, frame, depth, history, model, cur_settings, statuses, sol, result, exc>>

\* dict.get(key, default)
Get(dict, key, default) == IF key \in DOMAIN dict THEN dict[key] ELSE default

(***************************************************************************)
(* Real numbers of the source are exact fractions <<numerator,             *)
(* denominator>> with a positive denominator.                              *)
(***************************************************************************)
FMul(a, b) == <<a[1] * b[1], a[2] * b[2]>>
FInt(n) == <<n, 1>>
FEq(a, b) == a[1] * b[2] = b[1] * a[2]

\* int(round(a)) for a >= 0: to the nearest integer, a tie to the even one
RoundInt(a) ==
    LET q == a[1] \div a[2]
        r == a[1] % a[2]
    IN  IF 2 * r < a[2] THEN q
        ELSE IF 2 * r > a[2] THEN q + 1
        ELSE IF q % 2 = 0 THEN q ELSE q + 1

\* sum(fn[e] for e in S)
RECURSIVE SumOver(_, _)
SumOver(fn, S) ==
    IF S = {} THEN 0
    ELSE LET e == CHOOSE e \in S : TRUE IN fn[e] + SumOver(fn, S \ {e})

Sum(fn) == SumOver(fn, DOMAIN fn)

\* 64-bit sums of the solver: a number is <<high, low>> = high * BigBase + low
BigBase == 1000 * 1000
BigOf(n) == <<n \div BigBase, n % BigBase>>
BigAdd(a, b) == <<a[1] + b[1] + ((a[2] + b[2]) \div BigBase), (a[2] + b[2]) % BigBase>>
BigLeq(a, b) == a[1] < b[1] \/ (a[1] = b[1] /\ a[2] <= b[2])

\* sum(fn[i] for i in range(lo, hi + 1)), by halves
RECURSIVE SumRange(_, _, _)
SumRange(fn, lo, hi) ==
    IF lo > hi THEN 0
    ELSE IF lo = hi THEN fn[lo]
    ELSE SumRange(fn, lo, (lo + hi) \div 2) + SumRange(fn, ((lo + hi) \div 2) + 1, hi)

RECURSIVE BigSumRange(_, _, _)
BigSumRange(fn, lo, hi) ==
    IF lo > hi THEN BigOf(0)
    ELSE IF lo = hi THEN BigOf(fn[lo])
    ELSE BigAdd(BigSumRange(fn, lo, (lo + hi) \div 2),
                BigSumRange(fn, ((lo + hi) \div 2) + 1, hi))

(***************************************************************************)
(* Time and calendar helpers.                                              *)
(***************************************************************************)
\* int(time_str.split(":")[0]): the hour part, the minutes are dropped
parse_time_to_int(time_str) == time_str[1]

\* parse_time_to_int raises ValueError: the hour part is no number
ParseRaises(time_str) == time_str = << >>

\* the exception of reading start_time and end_time of a slot, or None
TimesError(slot) ==
    IF "start_time" \notin DOMAIN slot THEN "KeyError"
    ELSE IF ParseRaises(slot.start_time) THEN "ValueError"
    ELSE IF "end_time" \notin DOMAIN slot THEN "KeyError"
    ELSE IF ParseRaises(slot.end_time) THEN "ValueError"
    ELSE None

\* the exception of reading day_of_week, start_time and end_time, or None
SlotError(slot) ==
    IF "day_of_week" \notin DOMAIN slot THEN "KeyError" ELSE TimesError(slot)

\* days_of_week_order[(planning_start_date + timedelta(days=d)).weekday()];
\* d = -1 is the day before the horizon
DayOfWeek(planning_start_date, d) == (planning_start_date + d + 7) % 7

\* the slot is an overnight one: is_night_shift and end < start
IsOvernight(slot) ==
    slot.is_night_shift
      /\ parse_time_to_int(slot.end_time) < parse_time_to_int(slot.start_time)

(***************************************************************************)
(* get_employee_availability_matrix: the cells (emp_idx, day_idx, hour)    *)
(* set to True, and the keys of night_shift_details_map.  A slot whose     *)
(* reading raises KeyError or ValueError is skipped.                       *)
(***************************************************************************)
\* the marking with the end hour of a slot marked too
SlotMarks_Mutant(slot, d0, d, h, num_total_days) ==
    LET start_hour_int == parse_time_to_int(slot.start_time)
        end_hour_int == parse_time_to_int(slot.end_time)
    IN  IF IsOvernight(slot)
        THEN \/ d = d0 /\ start_hour_int <= h /\ h < 24
             \/ d0 + 1 < num_total_days /\ d = d0 + 1 /\ 0 <= h /\ h <= end_hour_int
        ELSE d = d0 /\ start_hour_int <= h /\ h <= end_hour_int

\* the slot, starting on day d0, marks hour h of day d
SlotMarks(slot, d0, d, h, num_total_days) ==
    LET start_hour_int == parse_time_to_int(slot.start_time)
        end_hour_int == parse_time_to_int(slot.end_time)
    IN  IF IsOvernight(slot)
        THEN \/ d = d0 /\ start_hour_int <= h /\ h < 24
             \/ d0 + 1 < num_total_days /\ d = d0 + 1 /\ 0 <= h /\ h < end_hour_int
        ELSE d = d0 /\ start_hour_int <= h /\ h < end_hour_int

get_employee_availability_matrix(employees_data, num_total_days, planning_start_date) ==
    { c \in (0 .. Len(employees_data) - 1) \X (0 .. num_total_days - 1) \X H_indices :
        \E i \in DOMAIN employees_data[c[1] + 1].availability :
          \E d0 \in 0 .. num_total_days - 1 :
            LET slot == employees_data[c[1] + 1].availability[i]
            IN  /\ SlotError(slot) = None
                /\ DayOfWeek(planning_start_date, d0) = slot.day_of_week
                /\ SlotMarks(slot, d0, c[2], c[3], num_total_days) }

night_shift_details_map(employees_data, num_total_days, planning_start_date) ==
    { k \in (0 .. Len(employees_data) - 1) \X (0 .. num_total_days - 1) :
        \E i \in DOMAIN employees_data[k[1] + 1].availability :
            LET slot == employees_data[k[1] + 1].availability[i]
            IN  /\ SlotError(slot) = None
                /\ DayOfWeek(planning_start_date, k[2]) = slot.day_of_week
                /\ slot.is_night_shift
                /\ (IsOvernight(slot) => k[2] + 1 < num_total_days) }

(***************************************************************************)
(* get_cleaning_tasks_for_day_facility: the date-specific entry filed      *)
(* under the date's day of week, else the day-of-week default, else 0.     *)
(***************************************************************************)
get_cleaning_tasks_for_day_facility(facility_id, date, cleaning_data) ==
    LET dow == DayOfWeek(date, 0)
        day_specific == { t \in cleaning_data.specific :
                            t[1] = facility_id /\ t[2] = dow /\ t[3] = date }
        default_tasks == { t \in cleaning_data.default :
                            t[1] = facility_id /\ t[2] = dow }
    IN  IF day_specific # {} THEN (CHOOSE t \in day_specific : TRUE)[4]
        ELSE IF default_tasks # {} THEN (CHOOSE t \in default_tasks : TRUE)[3]
        ELSE 0

\* math.ceil(a / b) for a >= 0, b > 0
CeilDiv(a, b) == (a + b - 1) \div b

Max(a, b) == IF a >= b THEN a ELSE b
Min(a, b) == IF a <= b THEN a ELSE b

\* required_staff_target of cell (f_idx, d_idx, h_idx)
required_staff_target(sched, cleaning_data, f_idx, d_idx, h_idx) ==
    LET settings == sched.settings
        facility_details == sched.facilities[f_idx + 1]
        cap == facility_details.cleaning_capacity_tasks_per_hour_per_employee
        facility_cleaning_capacity_per_hr == IF cap <= 0 THEN 1 ELSE cap
        cleaning_start_h == settings.cleaning_shift_start_hour
        cleaning_end_h == settings.cleaning_shift_end_hour
        cleaning_hours_duration == cleaning_end_h - cleaning_start_h
        daily_cleaning_tasks ==
            get_cleaning_tasks_for_day_facility(
                facility_details.id, settings.planning_start_date + d_idx, cleaning_data)
    IN  IF /\ cleaning_start_h <= h_idx /\ h_idx < cleaning_end_h
           /\ cleaning_hours_duration > 0 /\ daily_cleaning_tasks > 0
        THEN Max(1, CeilDiv(daily_cleaning_tasks,
                            facility_cleaning_capacity_per_hr * cleaning_hours_duration))
        ELSE 1

(***************************************************************************)
(* Model building: index sets, preferences, slots, decision variables.     *)
(***************************************************************************)
F_indices(sched) == 0 .. Len(sched.facilities) - 1
W_indices(sched) == 0 .. Len(sched.employees) - 1
D_indices(sched) == 0 .. sched.settings.num_days_in_planning_period - 1

\* emp_preferred_facilities_idx_sets[w_idx]: unknown facility ids are dropped
emp_preferred_facilities_idx_set(sched, w_idx) ==
    { f \in F_indices(sched) :
        \E i \in DOMAIN sched.employees[w_idx + 1].preferred_facilities :
            sched.employees[w_idx + 1].preferred_facilities[i] = sched.facilities[f + 1].id }

\* F_indices if not preferred_facilities_for_w else preferred_facilities_for_w
target_facilities(sched, w_idx) ==
    IF emp_preferred_facilities_idx_set(sched, w_idx) = {}
    THEN F_indices(sched)
    ELSE emp_preferred_facilities_idx_set(sched, w_idx)

\* all_availability_slots, in employee order; global_slot_idx = position - 1
RECURSIVE all_availability_slots(_, _)
all_availability_slots(employees_data, n) ==
    IF n = 0 THEN << >>
    ELSE all_availability_slots(employees_data, n - 1) \o
         [ i \in 1 .. Len(employees_data[n].availability) |->
             [ employee_idx |-> n - 1, original_slot_idx |-> i - 1,
               slot |-> employees_data[n].availability[i] ] ]

\* avail_slot after the three writes of the loop: the keys employee_idx,
\* original_slot_idx and global_slot_idx set, the other keys as they were
indexed_availability_slot(avail_slot, emp_idx, slot_local_idx, global_slot_idx) ==
    [ employee_idx |-> emp_idx, original_slot_idx |-> slot_local_idx,
      global_slot_idx |-> global_slot_idx ] @@ avail_slot

\* the first i slots of an employee, indexed
RECURSIVE indexed_availability(_, _, _, _)
indexed_availability(availability, emp_idx, before, i) ==
    IF i = 0 THEN << >>
    ELSE Append(indexed_availability(availability, emp_idx, before, i - 1),
                indexed_availability_slot(availability[i], emp_idx, i - 1, before + i - 1))

\* the first n employees, their slots indexed
RECURSIVE indexed_availability_slots_of(_, _)
indexed_availability_slots_of(employees_data, n) ==
    IF n = 0 THEN << >>
    ELSE Append(indexed_availability_slots_of(employees_data, n - 1),
                [ employees_data[n] EXCEPT
                    !.availability =
                        indexed_availability(
                            @, n - 1, Len(all_availability_slots(employees_data, n - 1)),
                            Len(@)) ])

\* employees_data after the loop that builds all_availability_slots: every
\* slot dict of the payload has got the keys employee_idx, original_slot_idx
\* and global_slot_idx
indexed_availability_slots(employees_data) ==
    indexed_availability_slots_of(employees_data, Len(employees_data))

\* keys of x without the availability test
XKeys_Mutant(sched, avail) ==
    { k \in F_indices(sched) \X W_indices(sched) \X D_indices(sched) \X H_indices :
        k[1] \in target_facilities(sched, k[2]) }

\* keys of x: cells with availability, for the employee's target facilities
XKeys(sched, avail) ==
    { k \in F_indices(sched) \X W_indices(sched) \X D_indices(sched) \X H_indices :
        /\ <<k[2], k[3], k[4]>> \in avail
        /\ k[1] \in target_facilities(sched, k[2]) }

\* keys of y: (global_slot_idx, f_idx) for the slot owner's target facilities
YKeys(sched, slots) ==
    { k \in (0 .. Len(slots) - 1) \X F_indices(sched) :
        k[2] \in target_facilities(sched, slots[k[1] + 1].employee_idx) }

\* covers_this_hour of the x-y link: the slot covers hour h_idx of day d_idx
covers_this_hour(slot, planning_start_date, d_idx, h_idx) ==
    LET start_h == parse_time_to_int(slot.start_time)
        end_h == parse_time_to_int(slot.end_time)
    IN  IF DayOfWeek(planning_start_date, d_idx) = slot.day_of_week
        THEN IF slot.is_night_shift /\ end_h < start_h
             THEN start_h <= h_idx /\ h_idx < 24
             ELSE start_h <= h_idx /\ h_idx < end_h
        ELSE /\ slot.is_night_shift
             /\ DayOfWeek(planning_start_date, d_idx - 1) = slot.day_of_week
             /\ end_h < start_h /\ 0 <= h_idx /\ h_idx < end_h

\* the exception the x-y link raises when it tests a slot against day
\* d_idx, or None: it reads day_of_week, and the hours of a slot of that
\* day of the week, or of a night slot of the day before
CoverError(slot, planning_start_date, d_idx) ==
    IF "day_of_week" \notin DOMAIN slot THEN "KeyError"
    ELSE IF \/ DayOfWeek(planning_start_date, d_idx) = slot.day_of_week
            \/ /\ Get(slot, "is_night_shift", FALSE)
               /\ DayOfWeek(planning_start_date, d_idx - 1) = slot.day_of_week
         THEN TimesError(slot)
         ELSE None

\* the exception that leaves the loop of the x-y link, or None: the one of
\* the first x key, in the order employee, day, whose employee has a slot
\* that raises, and of the first such slot
LinkError(sched, slots, xkeys) ==
    LET start == sched.settings.planning_start_date
        raising == { r \in { <<k[2], k[3]>> : k \in xkeys } \X DOMAIN slots :
                       /\ slots[r[2]].employee_idx = r[1][1]
                       /\ CoverError(slots[r[2]].slot, start, r[1][2]) # None }
        Before(a, b) == \/ a[1][1] < b[1][1]
                        \/ a[1][1] = b[1][1] /\ a[1][2] < b[1][2]
                        \/ a[1] = b[1] /\ a[2] <= b[2]
    IN  IF raising = {} THEN None
        ELSE LET first == CHOOSE a \in raising : \A b \in raising : Before(a, b)
             IN  CoverError(slots[first[2]].slot, start, first[1][2])

\* possible_y_vars of an x key
possible_y_vars(sched, slots, ykeys, xk) ==
    { yk \in ykeys :
        /\ yk[2] = xk[1]
        /\ slots[yk[1] + 1].employee_idx = xk[2]
        /\ covers_this_hour(slots[yk[1] + 1].slot, sched.settings.planning_start_date,
                            xk[3], xk[4]) }

(***************************************************************************)
(* Difficulty scores and the record of the attempt's settings.             *)
(***************************************************************************)
night_hours(settings) ==
    LET night_start_difficulty == settings.NIGHT_HOURS_RANGE_FOR_DIFFICULTY[1]
        night_end_difficulty == settings.NIGHT_HOURS_RANGE_FOR_DIFFICULTY[2]
    IN  IF night_start_difficulty < night_end_difficulty
        THEN night_start_difficulty .. night_end_difficulty - 1
        ELSE (night_start_difficulty .. 23) \cup (0 .. night_end_difficulty - 1)

\* difficulty_score_map[(f_idx, d_idx, h_idx)]; the facility plays no part
difficulty_score(settings, d_idx, h_idx) ==
    LET day_of_week_val == DayOfWeek(settings.planning_start_date, d_idx)
        is_weekend == day_of_week_val = 5 \/ day_of_week_val = 6
        base == FInt(Get(settings, "base_score_per_hour", 1))
        s1 == IF h_idx \in night_hours(settings)
              THEN FMul(base, Get(settings, "night_hour_multiplier", FInt(1)))
              ELSE base
    IN  IF is_weekend
        THEN FMul(s1, Get(settings, "weekend_day_multiplier", FInt(1)))
        ELSE s1

SoftCategories == {"consecutive_days", "weekly_days", "daily_hours", "staff_shortage"}

\* the multipliers of a first call: penalty_multipliers is None
DefaultMultipliers == [ c \in SoftCategories |-> FInt(1) ]

\* current_constraints_settings of an attempt
current_constraints_settings(settings, run_id, retry_attempt, penalty_multipliers) ==
    [ run_id |-> run_id,
      retry_attempt |-> retry_attempt,
      hard_constraints |->
        << "employee_availability_and_preferred_facility",
           "employee_one_facility_at_a_time",
           "works_on_day_definition",
           "overnight_shift_continuity",
           "max_weekly_hours_40",
           "min_rest_interval_8h",
           "no_facility_change_within_day" >>,
      soft_constraints_settings |->
        [ consecutive_days |->
            [ base_penalty |-> Get(settings, "consecutive_days_penalty", 20000),
              multiplier |-> Get(penalty_multipliers, "consecutive_days", FInt(1)) ],
          weekly_days |->
            [ base_penalty |-> Get(settings, "weekly_days_penalty", 10000),
              multiplier |-> Get(penalty_multipliers, "weekly_days", FInt(1)) ],
          daily_hours |->
            [ base_penalty |-> Get(settings, "daily_hours_penalty", 30000),
              multiplier |-> Get(penalty_multipliers, "daily_hours", FInt(1)) ],
          staff_shortage |->
            [ base_penalty |-> Get(settings, "staff_shortage_penalty", 50000),
              multiplier |-> Get(penalty_multipliers, "staff_shortage", FInt(1)) ],
          difficulty_fairness |->
            [ base_penalty |-> Get(settings, "fairness_penalty_weight_difficulty", 1000),
              multiplier |-> Get(penalty_multipliers, "difficulty_fairness", FInt(1)) ] ] ]

SCALE_FACTOR == 1000

EffectivePenalty(ccs, category) ==
    RoundInt(FMul(FInt(ccs.soft_constraints_settings[category].base_penalty),
                  ccs.soft_constraints_settings[category].multiplier))

\* final_penalty_per_short_person of a cell
final_penalty_per_short_person(sched, ccs, f, d, h) ==
    LET settings == sched.settings
        overrides == Get(sched.facilities[f + 1], "penalty_overrides", [none |-> 0])
        base == FInt(ccs.soft_constraints_settings.staff_shortage.base_penalty)
        for_facility == IF "staff_shortage_multiplier" \in DOMAIN overrides
                        THEN FMul(base, overrides.staff_shortage_multiplier)
                        ELSE base
        effective == FMul(for_facility, ccs.soft_constraints_settings.staff_shortage.multiplier)
        context_multiplier ==
            IF settings.cleaning_shift_start_hour >= h /\ h > settings.cleaning_shift_end_hour
            THEN Get(settings, "cleaning_shift_shortage_multiplier", <<3, 2>>)
            ELSE FInt(1)
    IN  RoundInt(FMul(FMul(FMul(effective, difficulty_score(settings, d, h)),
                           context_multiplier), FInt(SCALE_FACTOR)))

\* the scaled difficulty of an hour: int(round(score * SCALE_FACTOR))
scaled_score(settings, d, h) ==
    RoundInt(FMul(difficulty_score(settings, d, h), FInt(SCALE_FACTOR)))

\* additional_difficulty_cost_scaled of an hour
additional_difficulty_cost_scaled(settings, d, h) ==
    RoundInt(FMul(FMul(difficulty_score(settings, d, h),
                       Get(settings, "global_difficulty_cost_multiplier", <<1, 10>>)),
                  FInt(SCALE_FACTOR)))

\* solver.parameters.max_time_in_seconds, the wall-clock budget of the solver
max_time_in_seconds(settings) == Get(settings, "time_limit_sec", 60)

(***************************************************************************)
(* The model of one attempt, as solve_schedule builds it from its          *)
(* arguments: the availability bitmap, the slots, the keys of the x and y  *)
(* variables, the y variables linked to each x, the required staffing,     *)
(* and the budget set on the solver that is to solve it.                   *)
(***************************************************************************)
BuildModel(sched, cleaning_data, ccs) ==
    LET n == sched.settings.num_days_in_planning_period
        start == sched.settings.planning_start_date
        avail == get_employee_availability_matrix(sched.employees, n, start)
        slots == all_availability_slots(sched.employees, Len(sched.employees))
        xkeys == XKeys(sched, avail)
        ykeys == YKeys(sched, slots)
    IN  [ emp_avail_matrix |-> avail,
          night_shift_details |-> night_shift_details_map(sched.employees, n, start),
          slots |-> slots,
          x |-> xkeys,
          y |-> ykeys,
          link |-> [ xk \in xkeys |-> possible_y_vars(sched, slots, ykeys, xk) ],
          linked_x |-> [ yk \in ykeys |->
                           { xk \in xkeys : yk \in possible_y_vars(sched, slots, ykeys, xk) } ],
          required |-> [ c \in F_indices(sched) \X D_indices(sched) \X H_indices |->
                           required_staff_target(sched, cleaning_data, c[1], c[2], c[3]) ],
          shortage_coeff |-> [ c \in F_indices(sched) \X D_indices(sched) \X H_indices |->
                                 final_penalty_per_short_person(sched, ccs, c[1], c[2], c[3]) ],
          scaled_score |-> [ c \in D_indices(sched) \X H_indices |->
                               scaled_score(sched.settings, c[1], c[2]) ],
          direct_cost |-> [ c \in D_indices(sched) \X H_indices |->
                              additional_difficulty_cost_scaled(sched.settings, c[1], c[2]) ],
          above_domain |->
              { c \in F_indices(sched) \X D_indices(sched) \X H_indices :
                  required_staff_target(sched, cleaning_data, c[1], c[2], c[3])
                    > Max(1, Len(sched.employees)) },
          score_values |-> { scaled_score(sched.settings, c[1], c[2]) :
                               c \in D_indices(sched) \X H_indices },
          cost_values |-> { additional_difficulty_cost_scaled(sched.settings, c[1], c[2]) :
                              c \in D_indices(sched) \X H_indices },
          num_facilities |-> Len(sched.facilities),
          num_employees |-> Len(sched.employees),
          num_total_days |-> n,
          max_time_in_seconds |-> max_time_in_seconds(sched.settings) ]

(***************************************************************************)
(* Hard constraints over a valuation: y = the y variables set to 1,        *)
(* x = the x variables set to 1.                                           *)
(***************************************************************************)
\* the slots left free to be given to several facilities
SlotAtMostOneFacility_Mutant(m, y) == TRUE

\* each availability slot is given to at most one facility
SlotAtMostOneFacility(m, y) ==
    \A s \in 0 .. Len(m.slots) - 1 : Cardinality({ k \in y : k[1] = s }) <= 1

\* x_var == or_of_y_vars, and x_var == 0 without a covering y: the x set to 1
XFromY(m, y) == { xk : xk \in UNION { m.linked_x[yk] : yk \in y } }

\* the weekly limit taken facility by facility instead of over their sum
WeeklyHoursOK_Mutant(m, x) ==
    \A w \in 0 .. m.num_employees - 1 : \A f \in 0 .. m.num_facilities - 1 :
      \A week_start_day_idx \in { d \in 0 .. m.num_total_days - 1 : d % 7 = 0 } :
        Cardinality({ k \in x :
            /\ k[1] = f
            /\ k[2] = w
            /\ k[3] >= week_start_day_idx
            /\ k[3] < Min(week_start_day_idx + 7, m.num_total_days) }) <= MAX_WEEKLY_HOURS

\* hours_in_week_segment <= MAX_WEEKLY_HOURS for every week_start_day_idx
WeeklyHoursOK(m, x) ==
    \A w \in 0 .. m.num_employees - 1 :
      \A week_start_day_idx \in { d \in 0 .. m.num_total_days - 1 : d % 7 = 0 } :
        Cardinality({ k \in x :
            /\ k[2] = w
            /\ k[3] >= week_start_day_idx
            /\ k[3] < Min(week_start_day_idx + 7, m.num_total_days) }) <= MAX_WEEKLY_HOURS

\* the x variables set to 1 of one employee
XOf(x, w) == { k \in x : k[2] = w }

\* the global hours at which sum(possible_shifts) of the employee is at least 1
works_at_h(x, w) == { k[3] * HOURS_IN_DAY + k[4] : k \in XOf(x, w) }

\* works_at_h without its two constraints on the sum
WorksAtDefined_Mutant(x, w) == TRUE

\* works_at_h exists: every sum is 1 (working) or 0 (not working), none is 2
WorksAtDefined(x, w) == Cardinality(works_at_h(x, w)) = Cardinality(XOf(x, w))

\* what OnlyEnforceIf(is_end_of_shift_at_h) enforces: working at g and not at
\* g + 1 (the last hour of the planning period has no next hour)
is_end_of_shift(worked, g) == g \in worked /\ (g + 1) \notin worked

\* the constraint on the hours whose is_end_of_shift_at_h is false, left out
not_end_of_shift_Mutant(worked, g) == TRUE

\* what OnlyEnforceIf(is_end_of_shift_at_h.Not()) enforces: not working at
\* g, or working at g + 1
not_end_of_shift(worked, g) == g \notin worked \/ (g + 1) \in worked

\* the hours worked at which is_end_of_shift_at_h cannot be false
MustEnd(worked) == { g \in worked : ~not_end_of_shift(worked, g) }

\* the hours worked at which is_end_of_shift_at_h can be true as well as false
MayEnd(worked) ==
    { g \in worked : is_end_of_shift(worked, g) /\ not_end_of_shift(worked, g) }

\* the values of the is_end_of_shift_at_h variables that go with the x set
\* to 1, each as the set of the (employee, global hour) whose variable is
\* true; at an hour not worked the variable can only be false
EndOfShiftValues(m, x) ==
    LET must == UNION { LET worked == works_at_h(x, w)
                        IN  {w} \X MustEnd(worked) : w \in 0 .. m.num_employees - 1 }
        may == UNION { LET worked == works_at_h(x, w)
                       IN  {w} \X MayEnd(worked) : w \in 0 .. m.num_employees - 1 }
    IN  IF \E w \in 0 .. m.num_employees - 1 :
              LET worked == works_at_h(x, w)
              IN  \E g \in MustEnd(worked) : ~is_end_of_shift(worked, g)
        THEN {}
        ELSE { must \cup free : free \in SUBSET may }

\* the rest offsets after an end of shift: range(1, MIN_REST_HOURS)
RestOffsets == 1 .. (MIN_REST_HOURS - 1)

\* rest_works_var == 0 under OnlyEnforceIf(is_end_of_shift_at_h), for the
\* values ends of the is_end_of_shift_at_h variables
RestIntervalOK(m, x, ends) ==
    \A c \in ends :
        \A rest_offset \in RestOffsets :
            \A f \in 0 .. m.num_facilities - 1 :
                <<f, c[1], (c[2] + rest_offset) \div HOURS_IN_DAY,
                  (c[2] + rest_offset) % HOURS_IN_DAY>> \notin x

\* staff_count of a cell
staff_count(m, x, f, d, h) ==
    Cardinality({ w \in 0 .. m.num_employees - 1 : <<f, w, d, h>> \in x })

\* actual_shortage in [0, 1] instead of [0, max(1, num_employees)]
ShortageVarOK_UnitDomain(m, x) ==
    \A c \in { cc \in DOMAIN m.required : m.required[cc] > 1 } :
        m.required[c] - staff_count(m, x, c[1], c[2], c[3]) <= 1

\* the bound of actual_shortage kept only where the penalty of the cell is
\* at least half the unrelaxed penalty of an hour of base difficulty
ShortageVarOK_Mutant(m, x) ==
    \A c \in m.above_domain :
        m.shortage_coeff[c] >= 50000 * SCALE_FACTOR =>
            m.required[c] - staff_count(m, x, c[1], c[2], c[3]) <= Max(1, m.num_employees)

\* actual_shortage in [0, max(1, num_employees)] with
\* actual_shortage >= required_staff_target - staff_count: a cell whose
\* requirement is within the domain's upper bound holds for any staff_count
ShortageVarOK(m, x) ==
    \A c \in m.above_domain :
        m.required[c] - staff_count(m, x, c[1], c[2], c[3]) <= Max(1, m.num_employees)

(***************************************************************************)
(* Result extraction.                                                      *)
(***************************************************************************)
Block(sched, f, w, d, start_hour, end_hour) ==
    [ employee_id |-> sched.employees[w + 1].id,
      facility_id |-> sched.facilities[f + 1].id,
      date |-> sched.settings.planning_start_date + d,
      start_hour |-> start_hour,
      end_hour |-> end_hour ]

\* the end_hour taken as the last hour of the block
BlockEnd_Mutant(h_idx) == h_idx - 1

\* the end_hour of a block closed when hour h_idx is found unassigned
BlockEnd(h_idx) == h_idx

\* the sweep over the hours of one (employee, day, facility), from hour h_idx
\* on, with current_block_start_hour = cur (-1: no open block)
RECURSIVE SweepHours(_, _, _, _, _, _, _)
SweepHours(sched, x, f, w, d, h_idx, cur) ==
    IF h_idx = HOURS_IN_DAY
    THEN IF cur # -1 THEN << Block(sched, f, w, d, cur, HOURS_IN_DAY) >> ELSE << >>
    ELSE IF <<f, w, d, h_idx>> \in x
         THEN SweepHours(sched, x, f, w, d, h_idx + 1, IF cur = -1 THEN h_idx ELSE cur)
         ELSE (IF cur # -1 THEN << Block(sched, f, w, d, cur, BlockEnd(h_idx)) >> ELSE << >>)
              \o SweepHours(sched, x, f, w, d, h_idx + 1, -1)

\* the (facility, employee, day) triples with an hour set to 1
WorkedDays(x) == { <<k[1], k[2], k[3]>> : k \in x }

\* the three loops nested facility first, then employee, then day
RECURSIVE AssignmentsFrom_Mutant(_, _, _, _)
AssignmentsFrom_Mutant(sched, x, worked, n) ==
    LET nw == Len(sched.employees)
        nd == sched.settings.num_days_in_planning_period
        f == n \div (nw * nd)
        w == (n \div nd) % nw
        d == n % nd
    IN  IF n >= Len(sched.facilities) * nw * nd THEN << >>
        ELSE (IF <<f, w, d>> \in worked THEN SweepHours(sched, x, f, w, d, 0, -1) ELSE << >>)
             \o AssignmentsFrom_Mutant(sched, x, worked, n + 1)

\* assignments_with_difficulty: the blocks of the n-th (employee, day,
\* facility) triple on, in the order of the three nested loops; the sweep of
\* a triple without an hour set to 1 appends nothing
RECURSIVE AssignmentsFrom(_, _, _, _)
AssignmentsFrom(sched, x, worked, n) ==
    LET nf == Len(sched.facilities)
        nd == sched.settings.num_days_in_planning_period
        f == n % nf
        w == n \div (nd * nf)
        d == (n \div nf) % nd
    IN  IF n >= Len(sched.employees) * nd * nf THEN << >>
        ELSE (IF <<f, w, d>> \in worked THEN SweepHours(sched, x, f, w, d, 0, -1) ELSE << >>)
             \o AssignmentsFrom(sched, x, worked, n + 1)

\* the recomputation with the hour cleaning_end_h inside the window
required_staff_of_result_Mutant(sched, cleaning_data, f_idx, d_idx, h_idx) ==
    IF h_idx = sched.settings.cleaning_shift_end_hour
    THEN required_staff_target(sched, cleaning_data, f_idx, d_idx, h_idx - 1)
    ELSE required_staff_target(sched, cleaning_data, f_idx, d_idx, h_idx)

\* required_staff_target of cell (f_idx, d_idx, h_idx) as the extraction of
\* the shortages recomputes it
required_staff_of_result(sched, cleaning_data, f_idx, d_idx, h_idx) ==
    LET settings == sched.settings
        facility_details == sched.facilities[f_idx + 1]
        cap == facility_details.cleaning_capacity_tasks_per_hour_per_employee
        facility_cleaning_capacity_per_hr == IF cap <= 0 THEN 1 ELSE cap
        cleaning_start_h == settings.cleaning_shift_start_hour
        cleaning_end_h == settings.cleaning_shift_end_hour
        cleaning_hours_duration == cleaning_end_h - cleaning_start_h
        daily_cleaning_tasks ==
            get_cleaning_tasks_for_day_facility(
                facility_details.id, settings.planning_start_date + d_idx, cleaning_data)
    IN  IF cleaning_start_h <= h_idx /\ h_idx < cleaning_end_h
        THEN IF cleaning_hours_duration > 0 /\ daily_cleaning_tasks > 0
             THEN Max(1, CeilDiv(daily_cleaning_tasks,
                                 facility_cleaning_capacity_per_hr * cleaning_hours_duration))
             ELSE 1
        ELSE 1

\* the recount taken over every facility instead of the cell's
current_assigned_staff_Mutant(sched, x, f, d, h) ==
    Cardinality({ k \in x : k[3] = d /\ k[4] = h })

\* current_assigned_staff of a cell, recounted from the solution
current_assigned_staff(sched, x, f, d, h) ==
    Cardinality({ w \in W_indices(sched) : <<f, w, d, h>> \in x })

\* the entry of cell n = (facility, day, hour) in loop order, if it is short
ShortageEntry(sched, cleaning_data, x, n) ==
    LET nd == sched.settings.num_days_in_planning_period
        f == n \div (nd * HOURS_IN_DAY)
        d == (n \div HOURS_IN_DAY) % nd
        h == n % HOURS_IN_DAY
        required == required_staff_of_result(sched, cleaning_data, f, d, h)
        assigned == current_assigned_staff(sched, x, f, d, h)
        actual_shortage_count == required - assigned
    IN  IF actual_shortage_count > 0
        THEN << [ facility_id |-> sched.facilities[f + 1].id,
                  date |-> sched.settings.planning_start_date + d,
                  hour |-> h,
                  shortage_count |-> actual_shortage_count,
                  required_staff |-> required,
                  assigned_staff |-> assigned ] >>
        ELSE << >>

\* shortage_shifts_with_difficulty: the entries of cells lo .. hi, in loop order
RECURSIVE ShortagesIn(_, _, _, _, _)
ShortagesIn(sched, cleaning_data, x, lo, hi) ==
    IF lo > hi THEN << >>
    ELSE IF lo = hi THEN ShortageEntry(sched, cleaning_data, x, lo)
    ELSE ShortagesIn(sched, cleaning_data, x, lo, (lo + hi) \div 2)
         \o ShortagesIn(sched, cleaning_data, x, ((lo + hi) \div 2) + 1, hi)

shortage_shifts_details(sched, cleaning_data, x) ==
    ShortagesIn(sched, cleaning_data, x, 0,
                Len(sched.facilities) * sched.settings.num_days_in_planning_period
                  * HOURS_IN_DAY - 1)

\* the hours counted at the first facility only
Diagnostics_Mutant(sched, x, works) ==
    [ hours_worked_per_employee |->
        [ w \in W_indices(sched) |-> Cardinality({ k \in x : k[2] = w /\ k[1] = 0 }) ],
      days_worked_per_employee |->
        [ w \in W_indices(sched) |->
            Cardinality({ d \in D_indices(sched) : <<w, d>> \in works }) ] ]

\* diagnostics: hours from the x set to 1, days from works_on_day
Diagnostics(sched, x, works) ==
    [ hours_worked_per_employee |->
        [ w \in W_indices(sched) |-> Cardinality({ k \in x : k[2] = w }) ],
      days_worked_per_employee |->
        [ w \in W_indices(sched) |->
            Cardinality({ d \in D_indices(sched) : <<w, d>> \in works }) ] ]

(***************************************************************************)
(* Soft penalties and the objective of a valuation x (the auxiliary        *)
(* excess and shortage variables at their least values).                   *)
(***************************************************************************)
\* works_on_day[w, d] in a solution: the value its link with the hours forces
works_on_day(sched, x, w, d) ==
    IF \E xk \in x : xk[2] = w /\ xk[3] = d THEN 1 ELSE 0

hours_worked(sched, x, w, d) ==
    Cardinality({ xk \in x : xk[2] = w /\ xk[3] = d })

Excess(value, limit) == IF value > limit THEN value - limit ELSE 0

ConsecutivePenalty(sched, ccs, x) ==
    LET k == Get(sched.settings, "max_consecutive_work_days", 5)
        n == sched.settings.num_days_in_planning_period
    IN  IF k > 0 /\ n > k
        THEN Sum([ c \in W_indices(sched) \X (0 .. n - k - 1) |->
                    Excess(Sum([ d \in c[2] .. c[2] + k |-> works_on_day(sched, x, c[1], d) ]), k)
                      * EffectivePenalty(ccs, "consecutive_days") ])
        ELSE 0

WeeklyDaysPenalty(sched, ccs, x) ==
    LET n == sched.settings.num_days_in_planning_period
    IN  Sum([ c \in W_indices(sched) \X { d \in 0 .. n - 1 : d % 7 = 0 } |->
                Excess(Sum([ d \in c[2] .. Min(c[2] + 7, n) - 1 |-> works_on_day(sched, x, c[1], d) ]),
                       Get(sched.employees[c[1] + 1], "contract_max_days_per_week", 7))
                  * EffectivePenalty(ccs, "weekly_days") ])

DailyHoursPenalty(sched, ccs, x) ==
    Sum([ c \in W_indices(sched) \X D_indices(sched) |->
            Excess(hours_worked(sched, x, c[1], c[2]),
                   Get(sched.employees[c[1] + 1], "contract_max_hours_per_day", HOURS_IN_DAY))
              * EffectivePenalty(ccs, "daily_hours") ])

\* the cells (f_idx, d_idx, h_idx) in loop order: cell n
CellF(m, n) == n \div (m.num_total_days * HOURS_IN_DAY)
CellD(m, n) == (n \div HOURS_IN_DAY) % m.num_total_days
CellH(n) == n % HOURS_IN_DAY

ShortagePenalty(sched, m, ccs, x) ==
    BigSumRange([ n \in 0 .. m.num_facilities * m.num_total_days * HOURS_IN_DAY - 1 |->
                    Excess(m.required[<<CellF(m, n), CellD(m, n), CellH(n)>>],
                           staff_count(m, x, CellF(m, n), CellD(m, n), CellH(n)))
                      * m.shortage_coeff[<<CellF(m, n), CellD(m, n), CellH(n)>>] ],
                0, m.num_facilities * m.num_total_days * HOURS_IN_DAY - 1)

\* employee_total_difficulty_scaled
total_difficulty_scaled(m, x, w) ==
    LET xs == XOf(x, w)
    IN  SumOver([ v \in m.score_values |->
                    v * Cardinality({ k \in xs : m.scaled_score[<<k[3], k[4]>>] = v }) ],
                m.score_values)

FairnessPenalty(sched, m, ccs, x) ==
    LET totals == { total_difficulty_scaled(m, x, w) : w \in W_indices(sched) }
    IN  IF totals = {} THEN 0
        ELSE ((CHOOSE t \in totals : \A u \in totals : t >= u)
                - (CHOOSE t \in totals : \A u \in totals : t <= u))
             * EffectivePenalty(ccs, "difficulty_fairness")

DirectDifficultyCost(m, x) ==
    SumOver([ v \in m.cost_values |->
                v * Cardinality({ k \in x : m.direct_cost[<<k[3], k[4]>>] = v }) ],
            m.cost_values)

Objective(sched, m, ccs, x) ==
    BigAdd(BigAdd(BigOf(DirectDifficultyCost(m, x) + ConsecutivePenalty(sched, ccs, x)
                          + WeeklyDaysPenalty(sched, ccs, x) + DailyHoursPenalty(sched, ccs, x)),
                  BigOf(FairnessPenalty(sched, m, ccs, x))),
           ShortagePenalty(sched, m, ccs, x))

\* max_possible_difficulty_score: the upper bound of the total-difficulty variables
max_possible_difficulty_score(settings) ==
    LET wm == Get(settings, "weekend_day_multiplier", FInt(1))
        nm == Get(settings, "night_hour_multiplier", FInt(1))
        m1 == IF wm[1] * nm[2] >= nm[1] * wm[2] THEN wm ELSE nm
        mx == IF m1[1] >= m1[2] THEN m1 ELSE FInt(1)
    IN  (HOURS_IN_DAY * 7 * mx[1] * SCALE_FACTOR * 2) \div mx[2]

\* employee_total_difficulty_scaled lies in [0, max_possible_difficulty_score]
DifficultyVarOK(sched, m, x) ==
    \A w \in W_indices(sched) :
        total_difficulty_scaled(m, x, w) <= max_possible_difficulty_score(sched.settings)

\* the excess variables lie in their domains
ExcessVarsOK(sched, x) ==
    LET n == sched.settings.num_days_in_planning_period
    IN  /\ \A w \in W_indices(sched) :
             \A ws \in { d \in 0 .. n - 1 : d % 7 = 0 } :
               Excess(Sum([ d \in ws .. Min(ws + 7, n) - 1 |-> works_on_day(sched, x, w, d) ]),
                      Get(sched.employees[w + 1], "contract_max_days_per_week", 7)) <= 8
        /\ \A w \in W_indices(sched) :
             \A d \in D_indices(sched) :
               Excess(hours_worked(sched, x, w, d),
                      Get(sched.employees[w + 1], "contract_max_hours_per_day", HOURS_IN_DAY))
                 <= HOURS_IN_DAY + 1

HardConstraints(sched, m, x, y) ==
    /\ SlotAtMostOneFacility(m, y)
    /\ x = XFromY(m, y)
    /\ \A w \in 0 .. m.num_employees - 1 : WorksAtDefined(x, w)
    /\ \E ends \in EndOfShiftValues(m, x) : RestIntervalOK(m, x, ends)
    /\ WeeklyHoursOK(m, x)
    /\ ShortageVarOK(m, x)
    /\ ExcessVarsOK(sched, x)
    /\ DifficultyVarOK(sched, m, x)

\* hours_worked_this_day of every (employee, day) in a valuation
hours_worked_this_day(m, x) ==
    [ c \in (0 .. m.num_employees - 1) \X (0 .. m.num_total_days - 1) |->
        Cardinality({ k \in x : k[2] = c[1] /\ k[3] = c[2] }) ]

\* the link without its constraint on the days whose works_on_day is 0
WorksOnDayOK_Mutant(hours, works) ==
    \A c \in DOMAIN hours : c \in works => hours[c] > 0

\* hours_worked_this_day > 0 where works_on_day is 1, and == 0 where it is
\* 0; works = the works_on_day variables set to 1
WorksOnDayOK(hours, works) ==
    \A c \in DOMAIN hours :
        /\ c \in works => hours[c] > 0
        /\ c \notin works => hours[c] = 0

\* the values of the works_on_day variables that go with the x set to 1
WorksOnDayValues(m, x) ==
    LET hours == hours_worked_this_day(m, x)
    IN  { works \in SUBSET DOMAIN hours : WorksOnDayOK(hours, works) }

\* the valuations that satisfy the model
Solutions(sched, m) ==
    UNION { LET x == XFromY(m, yy)
            IN  { [y |-> yy, x |-> x, works_on_day |-> v[1], is_end_of_shift |-> v[2]] :
                    v \in WorksOnDayValues(m, x)
                            \X { ends \in EndOfShiftValues(m, x) :
                                    RestIntervalOK(m, x, ends) } } :
            yy \in { z \in SUBSET m.y : HardConstraints(sched, m, XFromY(m, z), z) } }

\* the valuations of least objective
Optimal(sched, m, c, S) ==
    LET scored == { <<x, Objective(sched, m, c, x)>> : x \in { v.x : v \in S } }
        values == { p[2] : p \in scored }
        least == { a \in values : \A b \in values : BigLeq(a, b) }
        best == { p[1] : p \in { q \in scored : q[2] \in least } }
    IN  { v \in S : v.x \in best }

(***************************************************************************)
(* The run: calls of solve_schedule, one attempt per call.                 *)
(***************************************************************************)
DEFAULT_TIME_LIMIT_SEC == 3600

Statuses == {"OPTIMAL", "FEASIBLE", "INFEASIBLE", "MODEL_INVALID", "UNKNOWN"}

\* the parameters of solve_schedule, bound in the order of its signature
Frame(a1, a2, a3, a4, a5, a6) ==
    [ full_result_ref |-> a1, schedule_input_data |-> a2, cleaning_tasks_data |-> a3,
      time_limit_sec |-> a4, retry_attempt |-> a5, penalty_multipliers |-> a6 ]

\* an argument that refers to an object of the caller
Ref(name) == [ ref |-> name ]

\* a penalty_multipliers argument: None, or a dict of multipliers
NoMultipliers == [ given |-> FALSE ]
Multipliers(pm) == [ given |-> TRUE, value |-> pm ]

NoModel == [ built |-> FALSE ]
NoSettings == [ retry_attempt |-> -1 ]
NoSolution == [ y |-> {}, x |-> {}, works_on_day |-> {}, is_end_of_shift |-> {} ]
NoResult == [ status |-> None ]

NoFrame == [ retry_attempt |-> -1 ]
NoResponse == [ code |-> 0 ]

Init ==
    /\ \E r \in Requests : inp = r[1] /\ args = r[2]
    /\ response = NoResponse
    /\ pc = "request"
    /\ frame = NoFrame
    /\ depth = 0
    /\ history = << >>
    /\ model = NoModel
    /\ cur_settings = NoSettings
    /\ statuses = << >>
    /\ sol = NoSolution
    /\ result = NoResult
    /\ exc = None

(***************************************************************************)
(* shift_optimazation, the HTTP handler.                                   *)
(***************************************************************************)
Digits == {"0", "1", "2", "3", "4", "5", "6", "7", "8", "9"}

DigitValue(c) ==
    CASE c = "0" -> 0 [] c = "1" -> 1 [] c = "2" -> 2 [] c = "3" -> 3 [] c = "4" -> 4
      [] c = "5" -> 5 [] c = "6" -> 6 [] c = "7" -> 7 [] c = "8" -> 8 [] c = "9" -> 9

DigitChar(n) ==
    CASE n = 0 -> "0" [] n = 1 -> "1" [] n = 2 -> "2" [] n = 3 -> "3" [] n = 4 -> "4"
      [] n = 5 -> "5" [] n = 6 -> "6" [] n = 7 -> "7" [] n = 8 -> "8" [] n = 9 -> "9"

\* str(n) for n >= 0
RECURSIVE str(_)
str(n) == IF n < 10 THEN << DigitChar(n) >> ELSE str(n \div 10) \o << DigitChar(n % 10) >>

\* the digits of an integer literal, after its sign
Unsigned(text) == IF text # << >> /\ text[1] \in {"-", "+"} THEN Tail(text) ELSE text

\* int(text) does not raise ValueError
IsIntLiteral(text) ==
    /\ Unsigned(text) # << >>
    /\ \A i \in DOMAIN Unsigned(text) : Unsigned(text)[i] \in Digits

RECURSIVE DigitsValue(_)
DigitsValue(digits) ==
    IF digits = << >> THEN 0
    ELSE DigitsValue(SubSeq(digits, 1, Len(digits) - 1)) * 10 + DigitValue(digits[Len(digits)])

\* int(text) of an integer literal
int(text) == IF text[1] = "-" THEN 0 - DigitsValue(Unsigned(text)) ELSE DigitsValue(Unsigned(text))

\* time_limit_schedule_sec: the query parameter when it is a positive
\* integer, else the default
time_limit_schedule_sec(request_args) ==
    LET text == Get(request_args, "time_limit_sec", str(DEFAULT_TIME_LIMIT_SEC))
    IN  IF ~IsIntLiteral(text) THEN DEFAULT_TIME_LIMIT_SEC
        ELSE IF int(text) <= 0 THEN DEFAULT_TIME_LIMIT_SEC
        ELSE int(text)

\* the value under the key is missing, None or empty
Falsy(dict, key) == key \notin DOMAIN dict \/ DOMAIN dict[key] = {}

\* the response (body, status code) of the handler
Response(code, schedule_result) == [ code |-> code, schedule_result |-> schedule_result ]

\* the handler up to the call of solve_schedule: 400 for a body that is
\* empty or lacks an input, the record NO_DATA_ERROR in a response 200 for a
\* schedule_input that lacks a section
shift_optimazation ==
    /\ pc = "request"
    /\ IF DOMAIN inp = {}
          \/ Falsy(inp, "schedule_input") \/ Falsy(inp, "cleaning_tasks_input")
       THEN /\ response' = Response(400, NoResult)
            /\ pc' = "responded"
            /\ UNCHANGED <<frame, depth>>
       ELSE IF {"settings", "facilities", "employees"} \subseteq DOMAIN inp.schedule_input
            THEN \* solve_schedule(current_full_result, schedule_input,
                 \*     cleaning_tasks_input, time_limit_schedule_sec, 0, None)
                 /\ frame' = Frame(Ref("full_result"), Ref("schedule_input"),
                                   Ref("cleaning_tasks_input"),
                                   time_limit_schedule_sec(args), 0, NoMultipliers)
                 /\ depth' = 1
                 /\ pc' = "call"
                 /\ UNCHANGED response
            ELSE /\ response' = Response(200, [ status |-> "NO_DATA_ERROR" ])
                 /\ pc' = "responded"
                 /\ UNCHANGED <<frame, depth>>
    /\ UNCHANGED <<inp, args, history, model, cur_settings, statuses, sol, result, exc>>

\* the handler after solve_schedule returned: the result in a response 200
Respond ==
    /\ pc = "done"
    /\ response' = Response(200, result)
    /\ pc' = "responded"
    /\ UNCHANGED <<inp, args, frame, depth, history, model, cur_settings, statuses, sol,
                   result, exc>>

\* the exception that leaves the building of the model, or None
BuildError(sched) ==
    LET n == sched.settings.num_days_in_planning_period
        start == sched.settings.planning_start_date
    IN  LinkError(sched, all_availability_slots(sched.employees, Len(sched.employees)),
                  XKeys(sched, get_employee_availability_matrix(sched.employees, n, start)))

\* the entry of solve_schedule up to the built model: penalty_multipliers
\* None becomes the default vector, then a missing key of
\* schedule_input_data raises KeyError; the slot dicts of the payload get
\* their index keys, the attempt is recorded in the history, then a slot
\* the x-y link cannot read raises
Build ==
    /\ pc = "call"
    /\ LET penalty_multipliers ==
               IF frame.penalty_multipliers.given
               THEN frame.penalty_multipliers.value
               ELSE DefaultMultipliers
       IN  /\ frame' = [frame EXCEPT !.penalty_multipliers = Multipliers(penalty_multipliers)]
           /\ IF {"settings", "facilities", "employees"}
                    \subseteq DOMAIN inp[frame.schedule_input_data.ref]
              THEN LET sched == inp[frame.schedule_input_data.ref]
                       settings_now ==
                           current_constraints_settings(
                               sched.settings, <<"attempt", frame.retry_attempt, depth>>,
                               frame.retry_attempt, penalty_multipliers)
                       link_error == BuildError(sched)
                   IN  /\ inp' = [inp EXCEPT
                                    ![frame.schedule_input_data.ref].employees =
                                        indexed_availability_slots(@)]
                       /\ cur_settings' = settings_now
                       /\ history' = Append(history, settings_now)
                       /\ IF link_error = None
                          THEN /\ model' = BuildModel(sched,
                                                      inp[frame.cleaning_tasks_data.ref],
                                                      settings_now)
                               /\ pc' = "built"
                               /\ exc' = exc
                          ELSE /\ model' = model
                               /\ pc' = "raised"
                               /\ exc' = link_error
              ELSE /\ pc' = "raised"
                   /\ exc' = "KeyError"
                   /\ UNCHANGED <<inp, cur_settings, history, model>>
    /\ UNCHANGED <<args, response, depth, statuses, sol, result>>

\* solver.Solve(model): a valuation with OPTIMAL or FEASIBLE when the model
\* has one, INFEASIBLE when it has none; UNKNOWN and MODEL_INVALID are the
\* solver's to report
Solve ==
    /\ pc = "built"
    /\ LET S == Solutions(inp[frame.schedule_input_data.ref], model)
       IN  \/ /\ S # {}
              /\ \E v \in S :
                    /\ sol' = v
                    /\ statuses' = Append(statuses, "FEASIBLE")
           \/ /\ S # {}
              /\ \E v \in Optimal(inp[frame.schedule_input_data.ref], model, cur_settings, S) :
                    /\ sol' = v
                    /\ statuses' = Append(statuses, "OPTIMAL")
           \/ /\ S = {}
              /\ sol' = NoSolution
              /\ statuses' = Append(statuses, "INFEASIBLE")
           \/ /\ sol' = NoSolution
              /\ \E st \in {"MODEL_INVALID", "UNKNOWN"} : statuses' = Append(statuses, st)
    /\ pc' = "solved"
    /\ UNCHANGED <<inp, args, response, frame, depth, history, model, cur_settings, result, exc>>

status_str == statuses[Len(statuses)]

\* the status test of the result branch, passing FEASIBLE to the failure branch
IsSolution_Mutant(status) == status = "OPTIMAL"

\* status == cp_model.OPTIMAL or status == cp_model.FEASIBLE
IsSolution(status) == status \in {"OPTIMAL", "FEASIBLE"}

\* the retry test taken for every status without a solution
ShouldRetry_Mutant(status, retry_attempt) ==
    ~IsSolution(status) /\ retry_attempt < MAX_RETRY_ATTEMPTS

\* status == cp_model.INFEASIBLE and retry_attempt < MAX_RETRY_ATTEMPTS
ShouldRetry(status, retry_attempt) ==
    status = "INFEASIBLE" /\ retry_attempt < MAX_RETRY_ATTEMPTS

\* status OPTIMAL or FEASIBLE: the result with assignments, shortages, diagnostics
Extract ==
    /\ pc = "solved"
    /\ IsSolution(status_str)
    /\ LET sched == inp[frame.schedule_input_data.ref]
       IN  result' = [ status |-> status_str,
                       run_id |-> cur_settings.run_id,
                       applied_constraints_settings |-> cur_settings,
                       assignments |-> AssignmentsFrom(sched, sol.x, WorkedDays(sol.x), 0),
                       shortage_shifts_details |->
                           shortage_shifts_details(sched, inp[frame.cleaning_tasks_data.ref],
                                                   sol.x),
                       diagnostics |-> Diagnostics(sched, sol.x, sol.works_on_day) ]
    /\ pc' = "done"
    /\ UNCHANGED <<inp, args, response, frame, depth, history, model, cur_settings, statuses, sol, exc>>

\* new_penalty_multipliers = {k: v * PENALTY_REDUCTION_FACTOR ...}
new_penalty_multipliers(penalty_multipliers) ==
    [ k \in DOMAIN penalty_multipliers |->
        FMul(penalty_multipliers[k], PENALTY_REDUCTION_FACTOR) ]

\* the frame of the call
\*   solve_schedule(schedule_input_data, cleaning_tasks_data,
\*                  retry_attempt + 1, new_penalty_multipliers)
\* the four arguments bind the first four parameters, the last two default
RetryFrame(fr) ==
    Frame(fr.schedule_input_data, fr.cleaning_tasks_data, fr.retry_attempt + 1,
          new_penalty_multipliers(fr.penalty_multipliers.value), 0, NoMultipliers)

\* INFEASIBLE and retry_attempt < MAX_RETRY_ATTEMPTS: the recursive call
Retry ==
    /\ pc = "solved"
    /\ ~IsSolution(status_str)
    /\ ShouldRetry(status_str, frame.retry_attempt)
    /\ frame' = RetryFrame(frame)
    /\ depth' = depth + 1
    /\ pc' = "call"
    /\ UNCHANGED <<inp, args, response, history, model, cur_settings, statuses, sol, result, exc>>

\* any other failure: the record with the status and the message
ReturnFailure ==
    /\ pc = "solved"
    /\ ~IsSolution(status_str)
    /\ ~ShouldRetry(status_str, frame.retry_attempt)
    /\ result' = [ status |-> status_str,
                   run_id |-> cur_settings.run_id,
                   applied_constraints_settings |-> cur_settings,
                   message |-> <<cur_settings.run_id, status_str>> ]
    /\ pc' = "done"
    /\ UNCHANGED <<inp, args, response, frame, depth, history, model, cur_settings, statuses, sol, exc>>

Next ==
    \/ shift_optimazation
    \/ Build \/ Solve \/ Extract \/ Retry \/ ReturnFailure
    \/ Respond

Spec == Init /\ [][Next]_vars

(***************************************************************************)
(* Properties of the run.                                                  *)
(***************************************************************************)
\* the run has ended: with a returned record, or with an exception
Returned == pc = "done"
Raised == pc = "raised"

\* the run returned a schedule
Succeeded == pc = "done" /\ result.status \in {"OPTIMAL", "FEASIBLE"}

\* the multipliers recorded by the i-th attempt of the history
HistoryMultiplier(i, k) == history[i].soft_constraints_settings[k].multiplier

RECURSIVE FPow(_, _)
FPow(q, n) == IF n = 0 THEN FInt(1) ELSE FMul(FPow(q, n - 1), q)

\* C1 (retry monotonicity): once a further attempt has been entered after an
\* INFEASIBLE one, each soft-penalty multiplier it uses is the multiplier the
\* previous attempt recorded for that category times PENALTY_REDUCTION_FACTOR.
C1_RetryMonotonicity ==
    (depth >= 2 /\ pc # "call") =>
        /\ frame.penalty_multipliers.given
        /\ \A k \in SoftCategories :
              FEq(frame.penalty_multipliers.value[k],
                  FMul(HistoryMultiplier(depth - 1, k), PENALTY_REDUCTION_FACTOR))

\* C2 (attempt cap): at most 3 attempts are made, and a run whose attempts
\* were all INFEASIBLE ends with a record of status INFEASIBLE and a history
\* of exactly 3 entries with the multipliers 1, 1/5, 1/25 in that order.
C2_AttemptCap ==
    /\ depth <= MAX_RETRY_ATTEMPTS
    /\ ((Returned \/ Raised) /\ statuses # << >>
          /\ \A i \in DOMAIN statuses : statuses[i] = "INFEASIBLE") =>
            /\ Returned
            /\ result.status = "INFEASIBLE"
            /\ Len(history) = 3
            /\ \A i \in 1 .. 3 : \A k \in SoftCategories :
                  FEq(HistoryMultiplier(i, k), FPow(PENALTY_REDUCTION_FACTOR, i - 1))

\* C3 (structured result): whatever the solver reported, no exception leaves
\* solve_schedule, and the record it returns carries a status.
C3_StructuredResult ==
    /\ ~Raised
    /\ exc = None
    /\ Returned => result.status \in Statuses

(***************************************************************************)
(* Properties of the solution and of the returned schedule.                *)
(***************************************************************************)
\* the solver reported a solution of the model of this attempt
SolutionFound == pc \in {"solved", "done"} /\ status_str \in {"OPTIMAL", "FEASIBLE"}

\* the payload of the caller
Payload0 == inp.schedule_input
StartDate == Payload0.settings.planning_start_date
NumDays == Payload0.settings.num_days_in_planning_period

EmployeeIds == { Payload0.employees[i].id : i \in DOMAIN Payload0.employees }
EmployeeOf(id) == CHOOSE i \in DOMAIN Payload0.employees : Payload0.employees[i].id = id
FacilityOf(id) == CHOOSE i \in DOMAIN Payload0.facilities : Payload0.facilities[i].id = id

\* the availability bitmap expanded from the weekly slots of the payload
Availability == get_employee_availability_matrix(Payload0.employees, NumDays, StartDate)

\* the blocks of the returned schedule of one employee
BlocksOf(id) ==
    { i \in DOMAIN result.assignments : result.assignments[i].employee_id = id }

\* the hours of the planning period covered by the blocks of one employee
AssignedHours(id) ==
    UNION { { (result.assignments[i].date - StartDate) * HOURS_IN_DAY + h :
                h \in result.assignments[i].start_hour ..
                      result.assignments[i].end_hour - 1 } : i \in BlocksOf(id) }

\* C4 (single facility at a time): in a solution no (employee, day, hour)
\* has x = 1 at two facilities, and no two blocks of one employee in the
\* returned schedule overlap on a date.
C4_SingleFacility ==
    /\ SolutionFound =>
          \A k \in sol.x : \A f \in F_indices(Payload0) :
              <<f, k[2], k[3], k[4]>> \in sol.x => f = k[1]
    /\ Succeeded =>
          \A i, j \in DOMAIN result.assignments :
              LET a == result.assignments[i]
                  b == result.assignments[j]
              IN  (i < j /\ a.employee_id = b.employee_id /\ a.date = b.date)
                    => (a.end_hour <= b.start_hour \/ b.end_hour <= a.start_hour)

\* C4's case: an employee whose slots overlap works at two facilities on
\* one date
C4_Witness ==
    /\ Succeeded
    /\ \E i, j \in DOMAIN result.assignments :
          /\ result.assignments[i].employee_id = result.assignments[j].employee_id
          /\ result.assignments[i].date = result.assignments[j].date
          /\ result.assignments[i].facility_id # result.assignments[j].facility_id
    /\ \E k \in model.x : \E f \in F_indices(Payload0) :
          f # k[1] /\ <<f, k[2], k[3], k[4]>> \in model.x

\* C5 (rest interval): in the returned schedule, after the last hour of a
\* working span of an employee the next MIN_REST_HOURS hours are unassigned.
C5_RestInterval ==
    Succeeded =>
      \A id \in EmployeeIds :
        LET worked == AssignedHours(id)
        IN  \A g \in worked :
              (g + 1) \notin worked =>
                \A rest \in 1 .. MIN_REST_HOURS : (g + rest) \notin worked

\* the cells (day, hour) of an overnight slot that starts on day d0
OvernightCells(slot, d0) ==
    { <<d0, h>> : h \in parse_time_to_int(slot.start_time) .. HOURS_IN_DAY - 1 }
    \cup { c \in {d0 + 1} \X (0 .. parse_time_to_int(slot.end_time) - 1) : d0 + 1 < NumDays }

\* C6 (overnight continuity): when the first hour of an overnight slot that
\* starts inside the horizon is assigned to facility f, every other hour of
\* the slot inside the horizon is assigned to f and none to another
\* facility; the assigned hours of a used slot are contiguous and at one
\* facility.
C6_OvernightContinuity ==
    SolutionFound =>
      \A w \in W_indices(Payload0) :
        \A i \in DOMAIN Payload0.employees[w + 1].availability :
          \A d0 \in D_indices(Payload0) :
            LET slot == Payload0.employees[w + 1].availability[i]
                cells == OvernightCells(slot, d0)
                used == { k \in sol.x : k[2] = w /\ <<k[3], k[4]>> \in cells }
            IN  (/\ SlotError(slot) = None
                 /\ slot.is_night_shift
                 /\ parse_time_to_int(slot.end_time) < parse_time_to_int(slot.start_time)
                 /\ DayOfWeek(StartDate, d0) = slot.day_of_week) =>
                   /\ \A f \in F_indices(Payload0) :
                         <<f, w, d0, parse_time_to_int(slot.start_time)>> \in sol.x =>
                           \A c \in cells :
                             /\ <<f, w, c[1], c[2]>> \in sol.x
                             /\ \A f2 \in F_indices(Payload0) \ {f} :
                                   <<f2, w, c[1], c[2]>> \notin sol.x
                   /\ \A k1, k2 \in used :
                         /\ k1[1] = k2[1]
                         /\ \A c \in cells :
                               (k1[3] * HOURS_IN_DAY + k1[4] < c[1] * HOURS_IN_DAY + c[2]
                                /\ c[1] * HOURS_IN_DAY + c[2] < k2[3] * HOURS_IN_DAY + k2[4])
                                 => \E k \in used : k[3] = c[1] /\ k[4] = c[2]

\* C7 (availability honored): the x variables of the built model exist only
\* for available cells, and every hour covered by a block of the returned
\* schedule is available in the bitmap expanded from the employee's slots.
C7_AvailabilityHonored ==
    LET available == Availability
    IN  /\ pc \in {"built", "solved", "done"} =>
              \A k \in model.x : <<k[2], k[3], k[4]>> \in available
        /\ Succeeded =>
              \A i \in DOMAIN result.assignments :
                LET a == result.assignments[i]
                IN  \A h \in a.start_hour .. a.end_hour - 1 :
                      <<EmployeeOf(a.employee_id) - 1, a.date - StartDate, h>> \in available

\* C7's case: an employee with two slots, unavailable for the rest of the
\* week, has a block in the returned schedule
C7_Witness ==
    /\ Succeeded
    /\ \E i \in DOMAIN result.assignments :
          LET a == result.assignments[i]
          IN  /\ Len(Payload0.employees[EmployeeOf(a.employee_id)].availability) = 2
              /\ a.end_hour - a.start_hour >= 2
              /\ \E h \in H_indices :
                    <<EmployeeOf(a.employee_id) - 1, a.date - StartDate, h>> \notin Availability

\* C8 (preference honored): every block of the returned schedule is at a
\* facility of the employee's preferred_facilities list, unless the list is
\* empty.
C8_PreferenceHonored ==
    Succeeded =>
      \A i \in DOMAIN result.assignments :
        LET a == result.assignments[i]
            preferred == Payload0.employees[EmployeeOf(a.employee_id)].preferred_facilities
        IN  \/ preferred = << >>
            \/ \E j \in DOMAIN preferred : preferred[j] = a.facility_id

\* the week windows [w, min(w + 7, N)) of the horizon
WeekStarts == { d \in 0 .. NumDays - 1 : d % 7 = 0 }

\* the hours of the blocks of an employee whose date lies in a window
BlockHoursIn(id, week_start) ==
    Sum([ i \in DOMAIN result.assignments |->
            LET a == result.assignments[i]
            IN  IF /\ a.employee_id = id
                   /\ a.date - StartDate >= week_start
                   /\ a.date - StartDate < Min(week_start + 7, NumDays)
                THEN a.end_hour - a.start_hour
                ELSE 0 ])

\* C9 (weekly cap): in a solution and in the returned schedule, the assigned
\* hours of an employee in a week window, summed over the facilities, are at
\* most 40.
C9_WeeklyCap ==
    /\ SolutionFound =>
          \A w \in W_indices(Payload0) : \A week_start \in WeekStarts :
            Cardinality({ k \in sol.x :
                /\ k[2] = w
                /\ k[3] >= week_start
                /\ k[3] < Min(week_start + 7, NumDays) }) <= 40
    /\ Succeeded =>
          \A id \in EmployeeIds : \A week_start \in WeekStarts :
            BlockHoursIn(id, week_start) <= 40

\* C9's case: an employee available for more than 40 hours of the window
\* works a whole day of it
C9_Witness ==
    /\ Succeeded
    /\ \E w \in W_indices(Payload0) :
          /\ Cardinality({ c \in Availability : c[1] = w }) > 40
          /\ BlockHoursIn(Payload0.employees[w + 1].id, 0) >= HOURS_IN_DAY

\* the number of employees assigned to a cell in the solution
AssignedTo(f, d, h) == Cardinality({ w \in W_indices(Payload0) : <<f, w, d, h>> \in sol.x })

\* required(f, d, h), from the payload
Required(f, d, h) == required_staff_target(Payload0, inp.cleaning_tasks_input, f, d, h)

\* C10 (shortage correctness): shortage_shifts_details has an entry for a
\* cell exactly when fewer employees than required are assigned to it, once,
\* and the entry's shortage_count is required minus that number.
C10_ShortageCorrectness ==
    Succeeded =>
      LET reported ==
            { << FacilityOf(result.shortage_shifts_details[i].facility_id) - 1,
                 result.shortage_shifts_details[i].date - StartDate,
                 result.shortage_shifts_details[i].hour,
                 result.shortage_shifts_details[i].shortage_count >> :
              i \in DOMAIN result.shortage_shifts_details }
          short ==
            UNION { LET required == Required(c[1], c[2], c[3])
                        assigned == AssignedTo(c[1], c[2], c[3])
                    IN  IF assigned < required
                        THEN { << c[1], c[2], c[3], required - assigned >> }
                        ELSE {} :
                    c \in F_indices(Payload0) \X D_indices(Payload0) \X H_indices }
      IN  /\ reported = short
          /\ Len(result.shortage_shifts_details) = Cardinality(short)

\* C10's case: a cell staffed below its requirement has an entry, and a
\* cell staffed to its requirement has none
C10_Witness ==
    /\ Succeeded
    /\ \E i \in DOMAIN result.shortage_shifts_details :
          /\ result.shortage_shifts_details[i].assigned_staff >= 1
          /\ result.shortage_shifts_details[i].shortage_count >= 1
    /\ \E k \in sol.x : AssignedTo(k[1], k[3], k[4]) >= Required(k[1], k[3], k[4])

(***************************************************************************)
(* Properties of the attempts and of the history.                          *)
(***************************************************************************)
\* C11 (history, one entry per attempt): once the k-th call of
\* solve_schedule is past the point where an attempt records its settings,
\* applied_constraints_history of the caller's result object has k records,
\* and the i-th record has the retry index i - 1.
C11_HistoryPerAttempt ==
    (depth >= 1 /\ pc # "call") =>
        /\ Len(history) = depth
        /\ \A i \in DOMAIN history : history[i].retry_attempt = i - 1

\* C12 (failure record after the last attempt): a run whose latest attempt
\* was INFEASIBLE ends with a returned record of status INFEASIBLE whose
\* applied_constraints_settings are those of the last attempt of the
\* history, the most relaxed ones.
C12_ExhaustedFailureRecord ==
    ((Returned \/ Raised) /\ statuses # << >> /\ status_str = "INFEASIBLE") =>
        /\ Returned
        /\ result.status = "INFEASIBLE"
        /\ result.applied_constraints_settings = history[Len(history)]
        /\ \A k \in SoftCategories :
              FEq(result.applied_constraints_settings.soft_constraints_settings[k].multiplier,
                  FPow(PENALTY_REDUCTION_FACTOR, Len(history) - 1))

TerminalStatuses == {"MODEL_INVALID", "UNKNOWN"}

\* C13 (MODEL_INVALID and UNKNOWN are terminal): an attempt with one of
\* these statuses is the last attempt, no call of solve_schedule follows
\* it, and the record returned has that status and no assignments.
C13_TerminalStatuses ==
    \A i \in DOMAIN statuses :
        statuses[i] \in TerminalStatuses =>
            /\ i = Len(statuses)
            /\ depth = i
            /\ pc \in {"solved", "done", "responded"}
            /\ pc \in {"done", "responded"} =>
                  /\ result.status = statuses[i]
                  /\ "assignments" \notin DOMAIN result

\* C13's case: the solver gave up on a model that has variables, and the
\* record with its status was returned
C13_Witness ==
    /\ Returned
    /\ status_str \in TerminalStatuses
    /\ result.status = status_str
    /\ model.x # {}

\* C14 (extract and return): an attempt with status OPTIMAL or FEASIBLE is
\* the last attempt, no call of solve_schedule follows it, and the record
\* returned has that status, the settings of that attempt, and the
\* assignments, shortage details and diagnostics of that attempt's solution.
C14_ExtractAndReturn ==
    \A i \in DOMAIN statuses :
        statuses[i] \in {"OPTIMAL", "FEASIBLE"} =>
            /\ i = Len(statuses)
            /\ depth = i
            /\ pc \in {"solved", "done", "responded"}
            /\ pc \in {"done", "responded"} =>
                  /\ result.status = statuses[i]
                  /\ {"assignments", "shortage_shifts_details", "diagnostics"}
                        \subseteq DOMAIN result
                  /\ result.applied_constraints_settings = history[i]
                  /\ result.assignments
                        = AssignmentsFrom(inp.schedule_input, sol.x, WorkedDays(sol.x), 0)
                  /\ \A w \in W_indices(inp.schedule_input) :
                        result.diagnostics.hours_worked_per_employee[w]
                          = Cardinality({ k \in sol.x : k[2] = w })

\* C14's case: the solver stopped with a feasible solution that assigns
\* work and leaves cells short, and the record was returned
C14_Witness ==
    /\ Returned
    /\ result.status = "FEASIBLE"
    /\ result.assignments # << >>
    /\ result.shortage_shifts_details # << >>

\* C15 (retries see the original input): every call of solve_schedule after
\* the first has the result object, the schedule input, the cleaning-task
\* table and the time limit of the first call as its arguments.
C15_RetrySameInput ==
    depth >= 2 =>
        /\ frame.full_result_ref = Ref("full_result")
        /\ frame.schedule_input_data = Ref("schedule_input")
        /\ frame.cleaning_tasks_data = Ref("cleaning_tasks_input")
        /\ frame.time_limit_sec = time_limit_schedule_sec(args)

\* the multiplier an attempt records for a category when it is called with
\* the vector the retry branch computes from the vector pm
NextMultiplier(pm, category) ==
    current_constraints_settings(inp.schedule_input.settings, None, frame.retry_attempt + 1,
                                 new_penalty_multipliers(pm))
        .soft_constraints_settings[category].multiplier

\* C16 (the vector covers the fairness weight): when an attempt is
\* INFEASIBLE and a retry is due, the multiplier of the difficulty-fairness
\* weight an attempt gets from the shrunk vector is the multiplier of this
\* attempt times PENALTY_REDUCTION_FACTOR, as for the other categories.
C16_FairnessScaled ==
    (pc = "solved" /\ depth = 1 /\ ShouldRetry(status_str, frame.retry_attempt)) =>
        \A category \in SoftCategories \cup {"difficulty_fairness"} :
            FEq(NextMultiplier(frame.penalty_multipliers.value, category),
                FMul(cur_settings.soft_constraints_settings[category].multiplier,
                     PENALTY_REDUCTION_FACTOR))

\* C17 (works_on_day link): in a solution, works_on_day[w, d] is 1 exactly
\* when the employee has an hour with x = 1, at any facility, on that day.
C17_WorksOnDayLink ==
    SolutionFound =>
        \A w \in W_indices(Payload0) : \A d \in D_indices(Payload0) :
            (<<w, d>> \in sol.works_on_day) <=> (\E k \in sol.x : k[2] = w /\ k[3] = d)

\* C17's case: an employee with x variables on two days works on one of
\* them and not on the other
C17_Witness ==
    /\ SolutionFound
    /\ \E w \in W_indices(Payload0) : \E d1, d2 \in D_indices(Payload0) :
          /\ <<w, d1>> \in sol.works_on_day
          /\ <<w, d2>> \notin sol.works_on_day
          /\ \E k \in model.x : k[2] = w /\ k[3] = d2

\* the employees without their malformed slots
WellFormedOnly(employees_data) ==
    [ i \in DOMAIN employees_data |->
        [ employees_data[i] EXCEPT
            !.availability = SelectSeq(@, LAMBDA slot : SlotError(slot) = None) ] ]

\* the payload has a malformed availability slot
HasMalformedSlot ==
    \E i \in DOMAIN Payload0.employees :
        \E j \in DOMAIN Payload0.employees[i].availability :
            SlotError(Payload0.employees[i].availability[j]) # None

\* C18 (malformed slots are skipped): with a malformed slot in the payload
\* no exception leaves solve_schedule, and the availability the model is
\* built from is that of the well-formed slots.
C18_MalformedSlotSkipped ==
    (depth = 1 /\ pc # "call" /\ HasMalformedSlot) =>
        /\ ~Raised
        /\ model.emp_avail_matrix
              = get_employee_availability_matrix(WellFormedOnly(Payload0.employees),
                                                 NumDays, StartDate)

\* the body lacks an input, or schedule_input lacks a section
LacksInput ==
    \/ "schedule_input" \notin DOMAIN inp
    \/ "cleaning_tasks_input" \notin DOMAIN inp
    \/ ~({"settings", "facilities", "employees"} \subseteq DOMAIN inp.schedule_input)

\* C19 (input-shape errors at the boundary): for a body that lacks an input
\* or a section of schedule_input, solve_schedule is never called and the
\* response has the status code 400.
C19_InputShapeErrors ==
    LacksInput =>
        /\ depth = 0
        /\ pc = "responded" => response.code = 400

\* C20 (solver budget): the wall-clock budget set on the solver of an
\* attempt is the time limit the handler resolved from the query parameter
\* and passed to solve_schedule.
C20_SolverBudget ==
    (depth = 1 /\ pc \in {"built", "solved", "done"}) =>
        /\ frame.time_limit_sec = time_limit_schedule_sec(args)
        /\ model.max_time_in_seconds = frame.time_limit_sec

(***************************************************************************)
(* Properties of the extracted schedule.                                   *)
(***************************************************************************)
\* the maximal runs of hours set to 1 in the solution, one block per run
MaximalRuns ==
    UNION { { Block(Payload0, t[1], t[2], t[3], s,
                    CHOOSE e \in s + 1 .. HOURS_IN_DAY :
                        /\ <<t[1], t[2], t[3], e>> \notin sol.x
                        /\ \A h \in s .. e - 1 : <<t[1], t[2], t[3], h>> \in sol.x) :
                s \in { h \in H_indices : /\ <<t[1], t[2], t[3], h>> \in sol.x
                                          /\ <<t[1], t[2], t[3], h - 1>> \notin sol.x } } :
            t \in WorkedDays(sol.x) }

\* the place of a block in the order (employee index, day, facility index,
\* start hour)
BlockKey(a) ==
    << EmployeeOf(a.employee_id), a.date, FacilityOf(a.facility_id), a.start_hour >>

\* p comes before q in the lexicographic order of the keys
KeyBefore(p, q) ==
    \E i \in 1 .. 4 : p[i] < q[i] /\ \A j \in 1 .. i - 1 : p[j] = q[j]

\* C21 (determinism of extraction): the assignments list of a returned
\* schedule is fixed by the input and the values of x: its blocks are the
\* maximal runs of x, each once, in strictly increasing (employee index, day,
\* facility index, start hour) order.
C21_ExtractionDeterminism ==
    Succeeded =>
        /\ { result.assignments[i] : i \in DOMAIN result.assignments } = MaximalRuns
        /\ Len(result.assignments) = Cardinality(MaximalRuns)
        /\ \A i \in 1 .. Len(result.assignments) - 1 :
              KeyBefore(BlockKey(result.assignments[i]), BlockKey(result.assignments[i + 1]))

\* C21's case: a schedule whose list has a block at the second facility
\* before a block at the first one, and blocks of two employees
C21_Witness ==
    /\ Succeeded
    /\ \E i, j \in DOMAIN result.assignments :
          /\ i < j
          /\ FacilityOf(result.assignments[i].facility_id)
                > FacilityOf(result.assignments[j].facility_id)
    /\ \E i, j \in DOMAIN result.assignments :
          result.assignments[i].employee_id # result.assignments[j].employee_id

(***************************************************************************)
(* Properties of the input payload.                                        *)
(***************************************************************************)
\* C22 (a solve leaves the input unchanged): no step of a call of
\* solve_schedule changes the content of the payload: settings, facilities,
\* employees with their availability slot records, cleaning-task table.
C22_InputUnchanged == [][inp' = inp]_vars

(***************************************************************************)
(* Properties of the rest interval encoding.                               *)
(***************************************************************************)
\* the global hours of the horizon at which an employee works in the solution
WorkedHours(w) == { k[3] * HOURS_IN_DAY + k[4] : k \in { kk \in sol.x : kk[2] = w } }

\* C23 (end-of-shift rest encoding): in a solution, the end-of-shift boolean
\* of an employee at a global hour t is true exactly when the employee works
\* at t and not at t + 1 (t + 1 may lie past the horizon), and then the
\* employee works at none of the hours t + 1 .. t + 7 inside the horizon.
C23_EndOfShiftRest ==
    SolutionFound =>
        \A w \in W_indices(Payload0) :
            LET worked == WorkedHours(w)
                ends == { t \in worked : (t + 1) \notin worked }
            IN  /\ worked \subseteq 0 .. NumDays * HOURS_IN_DAY - 1
                /\ { c \in sol.is_end_of_shift : c[1] = w } = {w} \X ends
                /\ \A t \in ends : \A rest \in 1 .. 7 : (t + rest) \notin worked

\* C23's case: a shift of an employee ends before the last hour of the
\* horizon, and the employee has an x variable, left at 0, in the seven
\* hours after it
C23_Witness ==
    /\ SolutionFound
    /\ \E c \in sol.is_end_of_shift :
          /\ c[2] + 1 < NumDays * HOURS_IN_DAY
          /\ \E k \in model.x :
                /\ k[2] = c[1]
                /\ k[3] * HOURS_IN_DAY + k[4] \in (c[2] + 1) .. (c[2] + 7)

(***************************************************************************)
(* Properties of the availability expansion and of the required staffing.  *)
(***************************************************************************)
\* the hours [lo, hi) of a day of an employee, inside the day
HoursOfDay(w, d, lo, hi) ==
    { <<w, d, h>> : h \in Max(lo, 0) .. Min(hi, HOURS_IN_DAY) - 1 }

\* the cells a well-formed slot of employee w that starts on planning day d
\* is to mark
SlotCells(w, slot, d) ==
    LET start == parse_time_to_int(slot.start_time)
        end == parse_time_to_int(slot.end_time)
    IN  IF slot.is_night_shift /\ end < start
        THEN HoursOfDay(w, d, start, 24)
               \cup (IF d + 1 < NumDays THEN HoursOfDay(w, d + 1, 0, end) ELSE {})
        ELSE HoursOfDay(w, d, start, end)

\* C24 (availability expansion): the cells marked available in the built
\* model are exactly, for every slot and every planning day d whose day of
\* week is the slot's, hours [start, end) of day d for a standard slot, and
\* [start, 24) of day d plus, if d + 1 < N, [0, end) of day d + 1 for an
\* overnight slot.
C24_AvailabilityExpansion ==
    (depth = 1 /\ pc = "built") =>
        model.emp_avail_matrix =
            UNION { UNION { UNION { SlotCells(w, Payload0.employees[w + 1].availability[i], d) :
                                    d \in { dd \in D_indices(Payload0) :
                                              DayOfWeek(StartDate, dd)
                                                = Payload0.employees[w + 1].availability[i]
                                                    .day_of_week } } :
                            i \in { j \in DOMAIN Payload0.employees[w + 1].availability :
                                      SlotError(Payload0.employees[w + 1].availability[j])
                                        = None } } :
                    w \in W_indices(Payload0) }

\* C24's case: an overnight slot that starts on the first of two planning
\* days runs into the second day up to its end hour, next to a standard slot
\* of the same employee
C24_Witness ==
    /\ depth = 1 /\ pc = "built"
    /\ NumDays = 2
    /\ \E w \in W_indices(Payload0) :
          /\ \E i \in DOMAIN Payload0.employees[w + 1].availability :
                LET slot == Payload0.employees[w + 1].availability[i]
                IN  /\ SlotError(slot) = None
                    /\ slot.is_night_shift
                    /\ slot.day_of_week = DayOfWeek(StartDate, 0)
                    /\ <<w, 0, parse_time_to_int(slot.start_time)>> \in model.emp_avail_matrix
                    /\ <<w, 1, parse_time_to_int(slot.end_time) - 1>> \in model.emp_avail_matrix
                    /\ <<w, 1, parse_time_to_int(slot.end_time)>> \notin model.emp_avail_matrix
          /\ \E i \in DOMAIN Payload0.employees[w + 1].availability :
                /\ SlotError(Payload0.employees[w + 1].availability[i]) = None
                /\ ~Payload0.employees[w + 1].availability[i].is_night_shift

\* ceil(a / b) for a > 0, b > 0: the least n with n * b >= a
LeastCover(a, b) == CHOOSE n \in 1 .. a : n * b >= a /\ (n - 1) * b < a

\* required(f, d, h) as stated: 1 outside the cleaning window; inside it,
\* with a positive window length and tasks > 0, max(1, ceil(tasks /
\* (capacity * window length))), a non-positive capacity taken as 1
StatedRequired(f, d, h) ==
    LET from == Payload0.settings.cleaning_shift_start_hour
        to == Payload0.settings.cleaning_shift_end_hour
        given == Payload0.facilities[f + 1].cleaning_capacity_tasks_per_hour_per_employee
        capacity == IF given > 0 THEN given ELSE 1
        tasks == get_cleaning_tasks_for_day_facility(Payload0.facilities[f + 1].id,
                                                     StartDate + d, inp.cleaning_tasks_input)
    IN  IF h \in from .. to - 1 /\ to - from > 0 /\ tasks > 0
        THEN Max(1, LeastCover(tasks, capacity * (to - from)))
        ELSE 1

\* C25 (required staffing): the required value of the shortage constraint of
\* every cell is the stated one, and the extraction of the shortages goes by
\* the same value: a cell has an entry exactly when fewer employees than the
\* constraint's required value are assigned, and the entry reports that value.
C25_RequiredStaffing ==
    /\ (depth = 1 /\ pc = "built") =>
          \A c \in F_indices(Payload0) \X D_indices(Payload0) \X H_indices :
              model.required[c] = StatedRequired(c[1], c[2], c[3])
    /\ Succeeded =>
          /\ { << FacilityOf(result.shortage_shifts_details[i].facility_id) - 1,
                  result.shortage_shifts_details[i].date - StartDate,
                  result.shortage_shifts_details[i].hour >> :
               i \in DOMAIN result.shortage_shifts_details }
                = LET staffed == { <<k[1], k[3], k[4]>> : k \in sol.x }
                  IN  { c \in F_indices(Payload0) \X D_indices(Payload0) \X H_indices :
                          (IF c \in staffed THEN AssignedTo(c[1], c[2], c[3]) ELSE 0)
                            < model.required[c] }
          /\ \A i \in DOMAIN result.shortage_shifts_details :
                LET e == result.shortage_shifts_details[i]
                IN  e.required_staff
                      = model.required[<<FacilityOf(e.facility_id) - 1, e.date - StartDate, e.hour>>]

\* C25's case: capacity 4, window 10-15, 40 tasks: the cells of the window
\* need 2, one employee is assigned, and the hour after the window needs 1
C25_Witness ==
    /\ Succeeded
    /\ \E i \in DOMAIN result.shortage_shifts_details :
          LET e == result.shortage_shifts_details[i]
          IN  /\ e.required_staff = 2
              /\ e.assigned_staff = 1
              /\ e.hour = 10
              /\ Payload0.facilities[FacilityOf(e.facility_id)]
                     .cleaning_capacity_tasks_per_hour_per_employee = 4
              /\ get_cleaning_tasks_for_day_facility(e.facility_id, e.date,
                                                     inp.cleaning_tasks_input) = 40
              /\ model.required[<<FacilityOf(e.facility_id) - 1, e.date - StartDate, 15>>] = 1

\* the hour of a date is set to 1 for the employee and the facility of a block
HourSet(a, h) ==
    <<FacilityOf(a.facility_id) - 1, EmployeeOf(a.employee_id) - 1, a.date - StartDate, h>>
        \in sol.x

\* C26 (blocks are the maximal contiguous runs): every block of a returned
\* schedule has 0 <= start_hour < end_hour <= 24 and a date of the horizon,
\* x = 1 at every hour of [start_hour, end_hour) for its employee, facility
\* and date and at neither the hour before start_hour nor the hour end_hour
\* of that date, so no block spans two dates; every hour with x = 1 lies in
\* exactly one block.
C26_MaximalRuns ==
    Succeeded =>
        /\ \A i \in DOMAIN result.assignments :
              LET a == result.assignments[i]
              IN  /\ 0 <= a.start_hour /\ a.start_hour < a.end_hour /\ a.end_hour <= 24
                  /\ a.date - StartDate \in D_indices(Payload0)
                  /\ \A h \in a.start_hour .. a.end_hour - 1 : HourSet(a, h)
                  /\ ~HourSet(a, a.start_hour - 1)
                  /\ ~HourSet(a, a.end_hour)
        /\ \A k \in sol.x :
              Cardinality({ i \in DOMAIN result.assignments :
                              LET a == result.assignments[i]
                              IN  /\ FacilityOf(a.facility_id) - 1 = k[1]
                                  /\ EmployeeOf(a.employee_id) - 1 = k[2]
                                  /\ a.date - StartDate = k[3]
                                  /\ a.start_hour <= k[4] /\ k[4] < a.end_hour }) = 1

\* C26's case: a run that goes over midnight gives a block that ends at 24
\* and a block of the next date that starts at 0, and another block ends
\* before the end of its date
C26_Witness ==
    /\ Succeeded
    /\ \E i, j \in DOMAIN result.assignments :
          /\ result.assignments[i].employee_id = result.assignments[j].employee_id
          /\ result.assignments[i].facility_id = result.assignments[j].facility_id
          /\ result.assignments[i].end_hour = 24
          /\ result.assignments[j].date = result.assignments[i].date + 1
          /\ result.assignments[j].start_hour = 0
    /\ \E i \in DOMAIN result.assignments :
          /\ result.assignments[i].start_hour > 0
          /\ result.assignments[i].end_hour < 24

(***************************************************************************)
(* Properties of the constraints of the built model.                       *)
(***************************************************************************)
\* the model solve_schedule builds from the payload for the multiplier
\* vector of all 1 shrunk k times by PENALTY_REDUCTION_FACTOR
RelaxedModel(k) ==
    BuildModel(Payload0, inp.cleaning_tasks_input,
               current_constraints_settings(
                   Payload0.settings, None, k,
                   [ c \in SoftCategories |-> FPow(PENALTY_REDUCTION_FACTOR, k) ]))

\* the parts of a built model its constraints are made of: all but the
\* penalty of a missing person, which only the objective has
ConstraintParts == DOMAIN model \ {"shortage_coeff", "slots"}

CellsOfSlot(s) ==
    LET w == model.slots[s + 1].employee_idx
        slot == model.slots[s + 1].slot
    IN  UNION { SlotCells(w, slot, d) :
                d \in { dd \in D_indices(Payload0) :
                          DayOfWeek(StartDate, dd) = slot.day_of_week } }

\* the global indices of the well-formed slots
WellFormedSlots ==
    { s \in 0 .. Len(model.slots) - 1 : SlotError(model.slots[s + 1].slot) = None }

\* the slots of an employee cover no cell twice
SlotsDisjoint(w) ==
    \A s1, s2 \in WellFormedSlots :
        (s1 # s2 /\ model.slots[s1 + 1].employee_idx = w
                 /\ model.slots[s2 + 1].employee_idx = w)
            => CellsOfSlot(s1) \cap CellsOfSlot(s2) = {}

\* C28 (slot-level assignment): in a solution every availability slot is
\* assigned to at most one facility, and x[f, e, d, h] = 1 exactly when a
\* slot of e that covers (d, h) is assigned to f; so a slot of an employee
\* whose slots do not overlap is worked in full at one facility, on every
\* planning day it recurs on, or not at all.
C28_SlotLevelAssignment ==
    (SolutionFound /\ WellFormedSlots = 0 .. Len(model.slots) - 1) =>
        /\ \A s \in WellFormedSlots : Cardinality({ yk \in sol.y : yk[1] = s }) <= 1
        /\ sol.x = model.x \cap UNION { { <<yk[2], c[1], c[2], c[3]>> : c \in CellsOfSlot(yk[1]) } :
                                        yk \in sol.y }
        /\ \A w \in W_indices(Payload0) :
              SlotsDisjoint(w) =>
                \A s \in { t \in WellFormedSlots : model.slots[t + 1].employee_idx = w } :
                  LET cells == CellsOfSlot(s)
                  IN  \/ \A c \in cells : \A f \in F_indices(Payload0) :
                            <<f, c[1], c[2], c[3]>> \notin sol.x
                      \/ \E f \in F_indices(Payload0) :
                            \A c \in cells : \A f2 \in F_indices(Payload0) :
                                (<<f2, c[1], c[2], c[3]>> \in sol.x) <=> (f2 = f)

\* C28's case: an employee with two slots that do not overlap works one of
\* them in full and the other not at all
C28_Witness ==
    /\ SolutionFound
    /\ WellFormedSlots = 0 .. Len(model.slots) - 1
    /\ \E s1, s2 \in WellFormedSlots :
          /\ s1 # s2
          /\ model.slots[s1 + 1].employee_idx = model.slots[s2 + 1].employee_idx
          /\ SlotsDisjoint(model.slots[s1 + 1].employee_idx)
          /\ CellsOfSlot(s1) # {} /\ CellsOfSlot(s2) # {}
          /\ \E yk \in sol.y : yk[1] = s1
          /\ \A yk \in sol.y : yk[1] # s2
          /\ \A c \in CellsOfSlot(s1) : \E k \in sol.x : <<k[2], k[3], k[4]>> = c
          /\ \A c \in CellsOfSlot(s2) : \A k \in sol.x : <<k[2], k[3], k[4]>> # c

\* the number of employees with an x variable at a cell
Assignable(c) == Cardinality({ w \in W_indices(Payload0) : <<c[1], w, c[2], c[3]>> \in model.x })

\* the upper bound of the shortage of a cell
ShortageBound == Max(1, Len(Payload0.employees))

\* C29 (feasibility and the shortage bound): when the required staffing of
\* every cell is at most max(1, number of employees), the schedule that
\* assigns nobody satisfies every constraint of the built model and the
\* solver does not report INFEASIBLE; when a cell's required staffing minus
\* the employees assignable to it exceeds that bound, the model has no
\* solution and the solver reports none.
C29_ShortageBoundFeasibility ==
    /\ (depth = 1 /\ pc = "built") =>
          /\ (\A c \in DOMAIN model.required : model.required[c] <= ShortageBound) =>
                HardConstraints(Payload0, model, {}, {})
          /\ (\E c \in DOMAIN model.required :
                  model.required[c] - Assignable(c) > ShortageBound) =>
                Solutions(Payload0, model) = {}
    /\ (depth = 1 /\ pc = "solved" /\ status_str = "INFEASIBLE") =>
          \E c \in DOMAIN model.required : model.required[c] > ShortageBound
    /\ (depth = 1 /\ pc = "solved" /\ IsSolution(status_str)) =>
          \A c \in DOMAIN model.required :
              model.required[c] > ShortageBound =>
                  model.required[c] - Assignable(c) <= ShortageBound

\* C29's case: a cell needs two of the two employees, the model has
\* variables, and the solver returns the schedule that assigns nobody
C29_Witness ==
    /\ depth = 1 /\ pc = "solved"
    /\ IsSolution(status_str)
    /\ sol.x = {}
    /\ model.x # {}
    /\ \E c \in DOMAIN model.required : model.required[c] = ShortageBound
    /\ \A c \in DOMAIN model.required : model.required[c] <= ShortageBound

(***************************************************************************)
(* Properties of the diagnostics.                                          *)
(***************************************************************************)
\* the hours of the blocks of an employee, summed
BlockHours(id) ==
    Sum([ i \in DOMAIN result.assignments |->
            IF result.assignments[i].employee_id = id
            THEN result.assignments[i].end_hour - result.assignments[i].start_hour
            ELSE 0 ])

\* the dates of the blocks of an employee
BlockDates(id) == { result.assignments[i].date : i \in BlocksOf(id) }

\* C30 (diagnostics agree with the assignments): in a returned schedule, the
\* hours_worked_per_employee of every employee is the sum of end_hour -
\* start_hour over the employee's blocks, and the days_worked_per_employee
\* is the number of distinct dates among them; both are 0 for an employee
\* without a block.
C30_DiagnosticsAgree ==
    Succeeded =>
        \A w \in W_indices(Payload0) :
            LET id == Payload0.employees[w + 1].id
            IN  /\ result.diagnostics.hours_worked_per_employee[w] = BlockHours(id)
                /\ result.diagnostics.days_worked_per_employee[w] = Cardinality(BlockDates(id))
                /\ BlocksOf(id) = {} =>
                      /\ result.diagnostics.hours_worked_per_employee[w] = 0
                      /\ result.diagnostics.days_worked_per_employee[w] = 0

\* C30's case: an employee with blocks at two facilities and on two dates,
\* next to an employee without a block
C30_Witness ==
    /\ Succeeded
    /\ \E id \in EmployeeIds :
          /\ Cardinality(BlockDates(id)) = 2
          /\ \E i, j \in BlocksOf(id) :
                result.assignments[i].facility_id # result.assignments[j].facility_id
          /\ result.diagnostics.hours_worked_per_employee[EmployeeOf(id) - 1] > 2
    /\ \E id \in EmployeeIds :
          /\ BlocksOf(id) = {}
          /\ result.diagnostics.days_worked_per_employee[EmployeeOf(id) - 1] = 0
=============================================================================
